---- MODULE Spec2Model ----
(***************************************************************************)
(* A model of the image-metadata decoders: the ISOBMFF/HEIF box tree       *)
(* decoder (src/heif), the TIFF/EXIF directory decoder (src/tiff.rs) and   *)
(* the JPEG marker scanner (src/jpeg.rs).                                  *)
(*                                                                         *)
(* A buffer is a sequence of bytes (0..255); a cursor is a 0-based         *)
(* position in it.  A decoding function of the source becomes an operator  *)
(* from (buffer, position, ...) to a record [ok, pos, ...]: ok = FALSE is  *)
(* a panic (an unwrap() of a failed read, an explicit panic!, an integer   *)
(* underflow: the debug build panics on the subtraction, the release build *)
(* wraps to a length near 2^64 and panics on the allocation or on the read *)
(* that follows, so both builds end in a panic).                           *)
(***************************************************************************)
EXTENDS Integers, Sequences, FiniteSets, TLC

VARIABLES
    input,       \* the family of the buffer and what it was built from
    kind,        \* which entry point runs: "heif", "jpeg" or "tiff"
    data,        \* the file buffer handed to the entry point
    position,    \* cursor.position() of the cursor over data
    pc,          \* where the running entry point is
    atoms,       \* read_heif: the top-level atoms decoded so far
    sections,    \* get_jpeg_sections: the (marker, payload) pairs so far
    scan,        \* get_jpeg_sections: locals of the start-of-scan loop
    tiff,        \* read_tiff: its cursor's buffer, position and locals
    result       \* what the entry point returned

vars == <<input, kind, data, position, pc, atoms, sections, scan, tiff, result>>

----------------------------------------------------------------------------
(* Primitive cursor reads (src/utils.rs)                                   *)

Min(a, b) == IF a < b THEN a ELSE b

Max(a, b) == IF a > b THEN a ELSE b

\* data[p .. p+n) of a 0-based position p
Slice(d, p, n) == [i \in 1..n |-> d[p + i]]

\* Every unsigned value of 2^30 or more is kept as Huge: the buffers are
\* far shorter, so a size, count or offset that large fails the read it
\* governs whatever its exact value
Huge == 1073741824

\* uN::from_be_bytes
RECURSIVE from_be_bytes(_)
from_be_bytes(b) ==
    IF b = <<>> THEN 0
    ELSE LET hi == from_be_bytes(SubSeq(b, 1, Len(b) - 1))
         IN  IF hi >= 4194304 THEN Huge ELSE 256 * hi + b[Len(b)]

Reverse(b) == [i \in 1..Len(b) |-> b[Len(b) + 1 - i]]

\* uN::from_le_bytes
from_le_bytes(b) == from_be_bytes(Reverse(b))

\* a * b of two usize values
Mul(a, b) == IF b # 0 /\ a > Huge \div b THEN Huge ELSE a * b

\* Read::read_exact of n bytes at p succeeds
CanRead(d, p, n) == n <= Len(d) - p

Panic(p) == [ok |-> FALSE, pos |-> p]

\* let x = v; followed by the rest of the function, F, with x bound to v
Let(v, F(_)) == F(v)

\* let x = r with r.unwrap() (or a panic!) on the way: a panic in r ends the
\* function, otherwise the rest of the function, F, goes on with x bound to r
Then(r, F(_)) == IF r.ok THEN F(r) ELSE Panic(r.pos)

\* read_unpack!(cursor, uN, Endianness::Big) with N = 8 * n
read_unpack(d, p, n) ==
    IF CanRead(d, p, n)
    THEN [ok |-> TRUE, pos |-> p + n, val |-> from_be_bytes(Slice(d, p, n))]
    ELSE Panic(p)

\* read_sized_string: size bytes, every NUL byte filtered out
read_sized_string(d, p, size) ==
    IF CanRead(d, p, size)
    THEN [ok |-> TRUE, pos |-> p + size,
          val |-> SelectSeq(Slice(d, p, size), LAMBDA c : c # 0)]
    ELSE Panic(p)

\* read_c_string: byte by byte until a NUL (consumed) or the end of buffer
RECURSIVE read_c_string(_, _)
read_c_string(d, p) ==
    IF p >= Len(d) THEN [ok |-> TRUE, pos |-> p, val |-> <<>>]
    ELSE IF d[p + 1] = 0 THEN [ok |-> TRUE, pos |-> p + 1, val |-> <<>>]
    ELSE LET r == read_c_string(d, p + 1)
         IN  [ok |-> TRUE, pos |-> r.pos, val |-> <<d[p + 1]>> \o r.val]

\* String::from_utf8_lossy as a list of code points, for bytes below 0xE0
\* (no lead byte of a sequence of three or four bytes): an ASCII byte is
\* its own code point, a lead byte 0xC2..0xDF with a continuation byte
\* 0x80..0xBF is the code point of the pair, and any other byte is
\* replaced by U+FFFD
RECURSIVE from_utf8_lossy(_)
from_utf8_lossy(b) ==
    IF b = <<>> THEN <<>>
    ELSE IF b[1] < 128 THEN <<b[1]>> \o from_utf8_lossy(Tail(b))
    ELSE IF /\ 194 <= b[1] /\ b[1] <= 223
            /\ Len(b) >= 2 /\ 128 <= b[2] /\ b[2] <= 191
    THEN <<(b[1] - 192) * 64 + (b[2] - 128)>>
         \o from_utf8_lossy(Tail(Tail(b)))
    ELSE <<65533>> \o from_utf8_lossy(Tail(b))

\* get_nibbles: (byte & 0x0F, (byte >> 4) & 0x0F)
get_nibbles(byte) == <<byte % 16, (byte \div 16) % 16>>

----------------------------------------------------------------------------
(* ISOBMFF box names                                                       *)

N_ftyp == <<102, 116, 121, 112>>
N_meta == <<109, 101, 116, 97>>
N_hdlr == <<104, 100, 108, 114>>
N_dinf == <<100, 105, 110, 102>>
N_dref == <<100, 114, 101, 102>>
N_alis == <<97, 108, 105, 115>>
N_rsrc == <<114, 115, 114, 99>>
N_url  == <<117, 114, 108, 32>>
N_pitm == <<112, 105, 116, 109>>
N_iinf == <<105, 105, 110, 102>>
N_infe == <<105, 110, 102, 101>>
N_iref == <<105, 114, 101, 102>>
N_iloc == <<105, 108, 111, 99>>
N_mime == <<109, 105, 109, 101>>
N_uri  == <<117, 114, 105, 32>>
N_Exif == <<69, 120, 105, 102>>

----------------------------------------------------------------------------
(* Box headers and leaf boxes (src/heif/atom.rs, atoms/unknown.rs, ftyp.rs) *)

\* The size read_atom_header returns for a 32-bit size field, with the
\* cursor after the header (p = the cursor after the name): the bytes up to
\* the end of the buffer for 0, the 64-bit field that follows for 1
atom_size(d, p, size32) ==
    CASE size32 = 0 -> [ok |-> TRUE, pos |-> p, size |-> Len(d) - p]
      [] size32 = 1 ->
            IF ~CanRead(d, p, 8) THEN Panic(p)
            ELSE [ok |-> TRUE, pos |-> p + 8,
                  size |-> from_be_bytes(Slice(d, p, 8))]
      [] OTHER -> [ok |-> TRUE, pos |-> p, size |-> size32]

\* read_atom_header: (name, size) and the cursor after the header; size32 =
\* the 32-bit size field, for the properties
read_atom_header(d, p) ==
    IF ~CanRead(d, p, 8) THEN Panic(p)
    ELSE Then(atom_size(d, p + 8, from_be_bytes(Slice(d, p, 4))), LAMBDA s :
         [ok |-> TRUE, pos |-> s.pos, name |-> Slice(d, p + 4, 4),
          size |-> s.size, size32 |-> from_be_bytes(Slice(d, p, 4))])

\* read_version_and_flags: one version byte and three flag bytes
read_version_and_flags(d, p) ==
    IF CanRead(d, p, 4)
    THEN [ok |-> TRUE, pos |-> p + 4, version |-> d[p + 1],
          flags |-> from_be_bytes(Slice(d, p + 1, 3))]
    ELSE Panic(p)

\* AtomUnknown::read_from: a buffer of size - 8 bytes filled by one read()
AtomUnknown_read_from(d, name, size, p) ==
    IF size < 8 THEN Panic(p)
    ELSE [ok |-> TRUE, pos |-> p + Min(size - 8, Max(Len(d) - p, 0)),
          atom |-> [variant |-> "Unknown", children |-> <<>>]]

\* AtomFtyp::read_from: major brand, minor version, (size / 4) - 4 brands
AtomFtyp_read_from(d, name, size, p) ==
    IF ~CanRead(d, p, 8) THEN Panic(p)
    ELSE IF size \div 4 < 4 THEN Panic(p)
    ELSE LET n == (size \div 4) - 4
         IN  IF ~CanRead(d, p + 8, 4 * n) THEN Panic(p)
             ELSE [ok |-> TRUE, pos |-> p + 8 + 4 * n,
                   atom |-> [variant |-> "Ftyp", children |-> <<>>,
                             major_brand |-> Slice(d, p, 4),
                             minor_version |-> from_be_bytes(Slice(d, p + 4, 4)),
                             compatible_brands |->
                                 [i \in 1..n |-> Slice(d, p + 8 + 4 * (i - 1), 4)]]]

----------------------------------------------------------------------------
(* The meta box and its sub-boxes (src/heif/atoms/meta.rs)                  *)

\* AtomMetaHdlr::read_from: 4 + 4 + 4 + 12 bytes, then a string of size - 32
AtomMetaHdlr_read_from(d, name, size, p) ==
    IF ~CanRead(d, p, 24) THEN Panic(p)
    ELSE IF size < 32 THEN Panic(p)
    ELSE Then(read_sized_string(d, p + 24, size - 32), LAMBDA s :
         [ok |-> TRUE, pos |-> s.pos,
          atom |-> [variant |-> "MetaHdlr", children |-> <<>>,
                    version |-> d[p + 1],
                    handler_type |-> read_sized_string(d, p + 8, 4).val,
                    name |-> s.val]])

\* AtomMetaDinfDrefEntry::read_from: version+flags, a string of size - 12
AtomMetaDinfDrefEntry_read_from(d, name, size, p) ==
    Then(read_version_and_flags(d, p), LAMBDA vf :
    IF size < 12 THEN Panic(p)
    ELSE Then(read_sized_string(d, vf.pos, size - 12), LAMBDA s :
         [ok |-> TRUE, pos |-> s.pos,
          atom |-> [variant |-> "MetaDinfDrefEntry", children |-> <<>>,
                    name |-> name, version |-> vf.version,
                    string_value |-> s.val]]))

\* AtomMetaPitm::read_from: item_id is a u16 in version 0, a u32 otherwise
AtomMetaPitm_read_from(d, name, size, p) ==
    Then(read_version_and_flags(d, p), LAMBDA vf :
    Then(read_unpack(d, vf.pos, IF vf.version = 0 THEN 2 ELSE 4), LAMBDA id :
         [ok |-> TRUE, pos |-> id.pos,
          atom |-> [variant |-> "MetaPitm", children |-> <<>>,
                    version |-> vf.version, item_id |-> id.val]]))

\* The "mime" arm of AtomMetaIinfInfe::read_from: a content type, then a
\* content encoding when cursor.position() - atom_start >= size
infe_mime(d, atom_start, size, p) ==
    Let(read_c_string(d, p), LAMBDA ct :
    IF ct.pos - atom_start >= size
    THEN Let(read_c_string(d, ct.pos), LAMBDA ce :
         [pos |-> ce.pos, content_type |-> <<ct.val>>,
          content_encoding |-> <<ce.val>>, item_uri_type |-> <<>>])
    ELSE [pos |-> ct.pos, content_type |-> <<ct.val>>,
          content_encoding |-> <<>>, item_uri_type |-> <<>>])

\* The "uri " arm of AtomMetaIinfInfe::read_from
infe_uri(d, p) ==
    Let(read_c_string(d, p), LAMBDA u :
        [pos |-> u.pos, content_type |-> <<>>, content_encoding |-> <<>>,
         item_uri_type |-> <<u.val>>])

\* match item_type.as_str() of AtomMetaIinfInfe::read_from
infe_by_item_type(d, item_type, atom_start, size, p) ==
    CASE item_type = N_mime -> infe_mime(d, atom_start, size, p)
      [] item_type = N_uri -> infe_uri(d, p)
      [] OTHER -> [pos |-> p, content_type |-> <<>>,
                   content_encoding |-> <<>>, item_uri_type |-> <<>>]

\* The fallback arm of AtomMetaIinfInfe::read_from (a version other than 2
\* or 3): size - 8 bytes read after the version+flags
infe_unknown(d, size, p) ==
    IF size < 8 THEN Panic(p)
    ELSE IF ~CanRead(d, p, size - 8) THEN Panic(p)
    ELSE [ok |-> TRUE, pos |-> p + (size - 8),
          value |-> [shape |-> "Unknown",
                     string |-> from_utf8_lossy(Slice(d, p, size - 8))]]

\* The versions 2 and 3 arm of AtomMetaIinfInfe::read_from
infe_v2or3(d, version, atom_start, size, p) ==
    Then(read_unpack(d, p, IF version = 2 THEN 2 ELSE 4), LAMBDA id :
    Then(read_unpack(d, id.pos, 2), LAMBDA ipi :
    Then(read_sized_string(d, ipi.pos, 4), LAMBDA ty :
    Then(read_c_string(d, ty.pos), LAMBDA nm :
    Let(infe_by_item_type(d, ty.val, atom_start, size, nm.pos), LAMBDA x :
        [ok |-> TRUE, pos |-> x.pos,
         value |-> [shape |-> "V2Or3",
                    item_id |-> id.val,
                    item_protection_index |-> ipi.val,
                    item_type |-> ty.val,
                    item_name |-> nm.val,
                    content_type |-> x.content_type,
                    content_encoding |-> x.content_encoding,
                    item_uri_type |-> x.item_uri_type]])))))

\* match version of AtomMetaIinfInfe::read_from
infe_by_version(d, version, atom_start, size, p) ==
    IF version \in {2, 3} THEN infe_v2or3(d, version, atom_start, size, p)
    ELSE infe_unknown(d, size, p)

\* AtomMetaIinfInfe::read_from
AtomMetaIinfInfe_read_from(d, name, size, p) ==
    Then(read_version_and_flags(d, p), LAMBDA vf :
    Then(infe_by_version(d, vf.version, p, size, vf.pos), LAMBDA r :
         [ok |-> TRUE, pos |-> r.pos,
          atom |-> [variant |-> "MetaIinfInfe", children |-> <<>>,
                    version |-> vf.version, value |-> r.value]]))

\* The references of one group of AtomMetaIref: count ids of w bytes each
iref_references(d, p, w, count) ==
    IF ~CanRead(d, p, w * count) THEN Panic(p)
    ELSE [ok |-> TRUE, pos |-> p + w * count,
          val |-> [i \in 1..count |->
                     from_be_bytes(Slice(d, p + w * (i - 1), w))]]

\* One (sub-box header, from item, references) group of AtomMetaIref; the
\* ids are 2 bytes wide in version 0 and 4 in version 1
iref_entry(d, version, p) ==
    Then(read_atom_header(d, p), LAMBDA h :
    IF version \notin {0, 1} THEN Panic(p)
    ELSE Then(read_unpack(d, h.pos, IF version = 0 THEN 2 ELSE 4), LAMBDA from :
         Then(read_unpack(d, from.pos, 2), LAMBDA cnt :
         Then(iref_references(d, cnt.pos, IF version = 0 THEN 2 ELSE 4, cnt.val),
              LAMBDA refs :
              [ok |-> TRUE, pos |-> refs.pos,
               entry |-> [name |-> h.name, from_item_id |-> from.val,
                          references |-> refs.val]]))))

\* The loop of AtomMetaIref::read_from:
\* while cursor.position() - start_position < size_minus_already_read
RECURSIVE iref_entries(_, _, _, _, _)
iref_entries(d, version, start_position, limit, p) ==
    IF ~(p - start_position < limit)
    THEN [ok |-> TRUE, pos |-> p, entries |-> <<>>]
    ELSE Then(iref_entry(d, version, p), LAMBDA e :
         Then(iref_entries(d, version, start_position, limit, e.pos),
              LAMBDA rest :
              [ok |-> TRUE, pos |-> rest.pos,
               entries |-> <<e.entry>> \o rest.entries]))

\* AtomMetaIref::read_from
AtomMetaIref_read_from(d, name, size, p) ==
    Then(read_version_and_flags(d, p), LAMBDA vf :
    IF size < 12 THEN Panic(p)
    ELSE Then(iref_entries(d, vf.version, vf.pos, size - 12, vf.pos), LAMBDA r :
         [ok |-> TRUE, pos |-> r.pos,
          atom |-> [variant |-> "MetaIref", children |-> <<>>,
                    version |-> vf.version, entries |-> r.entries]]))

\* iloc_field with the u64 arm reading a u32
iloc_field_u32(d, p, width) ==
    CASE width = 0 -> [ok |-> TRUE, pos |-> p, val |-> 0]
      [] width \in {4, 8} -> read_unpack(d, p, 4)
      [] OTHER -> Panic(p)

\* One nibble-coded field of AtomMetaIloc::read_from (base_offset,
\* extent_index, extent_offset, extent_length):
\* match width { 0 => 0, 4 => u32, 8 => u64, v => panic!() }
iloc_field(d, p, width) ==
    CASE width = 0 -> [ok |-> TRUE, pos |-> p, val |-> 0]
      [] width = 4 -> read_unpack(d, p, 4)
      [] width = 8 -> read_unpack(d, p, 8)
      [] OTHER -> Panic(p)

\* The extent_index of an extent: read in versions 1 and 2 only
iloc_extent_index(d, version, w, p) ==
    IF version \in {1, 2} THEN iloc_field(d, p, w.index_size)
    ELSE [ok |-> TRUE, pos |-> p, val |-> 0]

\* One extent of an iloc item; w = the four width codes; at, index_end,
\* offset_end and end = the cursor before and after each field
iloc_extent(d, version, w, p) ==
    Then(iloc_extent_index(d, version, w, p), LAMBDA ix :
    Then(iloc_field(d, ix.pos, w.offset_size), LAMBDA off :
    Then(iloc_field(d, off.pos, w.length_size), LAMBDA len :
         [ok |-> TRUE, pos |-> len.pos,
          extent |-> [extent_index |-> IF version \in {1, 2}
                                       THEN <<ix.val>> ELSE <<>>,
                      extent_offset |-> off.val,
                      extent_length |-> len.val,
                      at |-> p, index_end |-> ix.pos,
                      offset_end |-> off.pos, end |-> len.pos]])))

\* for _ in 0..extent_count: every extent takes as many bytes as the first
\* one, so the i-th one starts (i - 1) such lengths after it
iloc_extents(d, version, w, p, n) ==
    IF n = 0 THEN [ok |-> TRUE, pos |-> p, extents |-> <<>>]
    ELSE Then(iloc_extent(d, version, w, p), LAMBDA first :
         IF ~CanRead(d, p, Mul(n, first.pos - p)) THEN Panic(p)
         ELSE [ok |-> TRUE, pos |-> p + n * (first.pos - p),
               extents |->
                 [i \in 1..n |->
                    iloc_extent(d, version, w,
                                p + (i - 1) * (first.pos - p)).extent]])

\* reserved and construction_method of an iloc item (versions 1 and 2):
\* field & 0xFFF and field & 0b1111
iloc_reserved(field) == field % 4096

iloc_construction_method(field) == field % 16

\* The 16 bits before data_reference_index: read in versions 1 and 2 only
iloc_item_field(d, version, p) ==
    IF version \in {1, 2} THEN read_unpack(d, p, 2)
    ELSE [ok |-> TRUE, pos |-> p, val |-> 0]

\* One item of AtomMetaIloc::read_from
iloc_item(d, version, w, p) ==
    Then(read_unpack(d, p, IF version = 2 THEN 4 ELSE 2), LAMBDA id :
    Then(iloc_item_field(d, version, id.pos), LAMBDA rc :
    Then(read_unpack(d, rc.pos, 2), LAMBDA dri :
    Then(iloc_field(d, dri.pos, w.base_offset_size), LAMBDA bo :
    Then(read_unpack(d, bo.pos, 2), LAMBDA ec :
    Then(iloc_extents(d, version, w, ec.pos, ec.val), LAMBDA ex :
         [ok |-> TRUE, pos |-> ex.pos,
          item |-> [item_id |-> id.val,
                    reserved |-> IF version \in {1, 2}
                                 THEN <<iloc_reserved(rc.val)>> ELSE <<>>,
                    construction_method |->
                        IF version \in {1, 2}
                        THEN <<iloc_construction_method(rc.val)>> ELSE <<>>,
                    field |-> rc.val,
                    field_at |-> id.pos, field_end |-> rc.pos,
                    data_reference_index |-> dri.val,
                    base_offset |-> bo.val,
                    base_at |-> dri.pos, base_end |-> bo.pos,
                    extents |-> ex.extents]]))))))

\* for _ in 0..item_count
RECURSIVE iloc_items(_, _, _, _, _)
iloc_items(d, version, w, p, n) ==
    IF n = 0 THEN [ok |-> TRUE, pos |-> p, items |-> <<>>]
    ELSE Then(iloc_item(d, version, w, p), LAMBDA it :
         Then(iloc_items(d, version, w, it.pos, n - 1), LAMBDA rest :
              [ok |-> TRUE, pos |-> rest.pos,
               items |-> <<it.item>> \o rest.items]))

\* The four width codes of an iloc box, from its two packed bytes
iloc_widths(byte1, byte2) ==
    [offset_size |-> get_nibbles(byte1)[1],
     length_size |-> get_nibbles(byte1)[2],
     base_offset_size |-> get_nibbles(byte2)[1],
     index_size |-> get_nibbles(byte2)[2]]

\* AtomMetaIloc::read_from
AtomMetaIloc_read_from(d, name, size, p) ==
    Then(read_version_and_flags(d, p), LAMBDA vf :
    IF ~CanRead(d, vf.pos, 2) THEN Panic(p)
    ELSE IF vf.version \notin {0, 1, 2} THEN Panic(p)
    ELSE Then(read_unpack(d, vf.pos + 2, IF vf.version = 2 THEN 4 ELSE 2),
              LAMBDA cnt :
         Then(iloc_items(d, vf.version,
                         iloc_widths(d[vf.pos + 1], d[vf.pos + 2]),
                         cnt.pos, cnt.val), LAMBDA r :
              [ok |-> TRUE, pos |-> r.pos,
               atom |-> [variant |-> "MetaIloc", children |-> <<>>,
                         version |-> vf.version,
                         widths |-> iloc_widths(d[vf.pos + 1], d[vf.pos + 2]),
                         packed |-> Slice(d, vf.pos, 2),
                         items |-> r.items]])))

\* The atom an AtomVariant holds, with the header it was read under: the
\* offset of the header, its length, the size it declared and the cursor
\* after read_from
Boxed(p, h, r) ==
    [ok |-> TRUE, pos |-> r.pos,
     atom |-> [name |-> h.name, start |-> p, hdr |-> h.pos - p,
               size |-> h.size, size32 |-> h.size32, end |-> r.pos,
               variant |-> r.atom.variant, children |-> r.atom.children,
               value |-> r.atom]]

RECURSIVE read_sub_atom(_, _, _)
RECURSIVE dref_entries(_, _, _)
RECURSIVE iinf_entries(_, _, _)
RECURSIVE meta_children(_, _, _, _)

\* AtomMetaDinf::read_from: one sub-atom, which must be a dref
AtomMetaDinf_read_from(d, name, size, p) ==
    Then(read_sub_atom(d, "meta.dinf", p), LAMBDA sub :
    IF sub.atom.variant # "MetaDinfDref" THEN Panic(p)
    ELSE [ok |-> TRUE, pos |-> sub.pos,
          atom |-> [variant |-> "MetaDinf", children |-> <<sub.atom>>]])

\* for _ in 0..number_of_entries of AtomMetaDinfDref::read_from
dref_entries(d, p, n) ==
    IF n = 0 THEN [ok |-> TRUE, pos |-> p, entries |-> <<>>]
    ELSE Then(read_sub_atom(d, "meta.dinf.dref", p), LAMBDA e :
         IF e.atom.variant # "MetaDinfDrefEntry" THEN Panic(p)
         ELSE Then(dref_entries(d, e.pos, n - 1), LAMBDA rest :
              [ok |-> TRUE, pos |-> rest.pos,
               entries |-> <<e.atom>> \o rest.entries]))

\* AtomMetaDinfDref::read_from
AtomMetaDinfDref_read_from(d, name, size, p) ==
    Then(read_version_and_flags(d, p), LAMBDA vf :
    Then(read_unpack(d, vf.pos, 4), LAMBDA cnt :
    Then(dref_entries(d, cnt.pos, cnt.val), LAMBDA r :
         [ok |-> TRUE, pos |-> r.pos,
          atom |-> [variant |-> "MetaDinfDref", children |-> r.entries,
                    version |-> vf.version]])))

\* for _ in 0..number_of_entries of AtomMetaIinf::read_from
iinf_entries(d, p, n) ==
    IF n = 0 THEN [ok |-> TRUE, pos |-> p, entries |-> <<>>]
    ELSE Then(read_sub_atom(d, "meta.iinf", p), LAMBDA e :
         IF e.atom.variant # "MetaIinfInfe" THEN Panic(p)
         ELSE Then(iinf_entries(d, e.pos, n - 1), LAMBDA rest :
              [ok |-> TRUE, pos |-> rest.pos,
               entries |-> <<e.atom>> \o rest.entries]))

\* AtomMetaIinf::read_from: the entry count is a u16 in version 0
AtomMetaIinf_read_from(d, name, size, p) ==
    Then(read_version_and_flags(d, p), LAMBDA vf :
    Then(read_unpack(d, vf.pos, IF vf.version = 0 THEN 2 ELSE 4), LAMBDA cnt :
    Then(iinf_entries(d, cnt.pos, cnt.val), LAMBDA r :
         [ok |-> TRUE, pos |-> r.pos,
          atom |-> [variant |-> "MetaIinf", children |-> r.entries,
                    version |-> vf.version]])))

\* The match of read_sub_atom on "<parent>.<name>": the decoder of the pair,
\* Unknown for a pair that is none of the listed ones
sub_atom_variant(d, parent, name, size, p) ==
    CASE parent = "meta" /\ name = N_hdlr ->
            AtomMetaHdlr_read_from(d, name, size, p)
      [] parent = "meta" /\ name = N_dinf ->
            AtomMetaDinf_read_from(d, name, size, p)
      [] parent = "meta.dinf" /\ name = N_dref ->
            AtomMetaDinfDref_read_from(d, name, size, p)
      [] parent = "meta.dinf.dref" /\ name \in {N_alis, N_rsrc, N_url} ->
            AtomMetaDinfDrefEntry_read_from(d, name, size, p)
      [] parent = "meta" /\ name = N_pitm ->
            AtomMetaPitm_read_from(d, name, size, p)
      [] parent = "meta" /\ name = N_iinf ->
            AtomMetaIinf_read_from(d, name, size, p)
      [] parent = "meta.iinf" /\ name = N_infe ->
            AtomMetaIinfInfe_read_from(d, name, size, p)
      [] parent = "meta" /\ name = N_iref ->
            AtomMetaIref_read_from(d, name, size, p)
      [] parent = "meta" /\ name = N_iloc ->
            AtomMetaIloc_read_from(d, name, size, p)
      [] OTHER ->
            AtomUnknown_read_from(d, name, size, p)

\* read_sub_atom: the header, then the decoder of "<parent>.<name>"
read_sub_atom(d, parent, p) ==
    Then(read_atom_header(d, p), LAMBDA h :
    Then(sub_atom_variant(d, parent, h.name, h.size, h.pos), LAMBDA r :
         Boxed(p, h, r)))

\* The loop of AtomMeta::read_from:
\* while cursor.position() - start_position < size_minus_already_read
meta_children(d, start_position, limit, p) ==
    IF ~(p - start_position < limit)
    THEN [ok |-> TRUE, pos |-> p, children |-> <<>>]
    ELSE Then(read_sub_atom(d, "meta", p), LAMBDA c :
         Then(meta_children(d, start_position, limit, c.pos), LAMBDA rest :
              [ok |-> TRUE, pos |-> rest.pos,
               children |-> <<c.atom>> \o rest.children]))

\* AtomMeta::read_from
AtomMeta_read_from(d, name, size, p) ==
    Then(read_version_and_flags(d, p), LAMBDA vf :
    IF size < 12 THEN Panic(p)
    ELSE Then(meta_children(d, vf.pos, size - 12, vf.pos), LAMBDA r :
         [ok |-> TRUE, pos |-> r.pos,
          atom |-> [variant |-> "Meta", children |-> r.children,
                    version |-> vf.version]]))

\* The three top-level decoders of read_top_atom
top_atom_variant(d, name, size, p) ==
    CASE name = N_ftyp -> AtomFtyp_read_from(d, name, size, p)
      [] name = N_meta -> AtomMeta_read_from(d, name, size, p)
      [] OTHER -> AtomUnknown_read_from(d, name, size, p)

\* read_top_atom: the header, then ftyp, meta or Unknown
read_top_atom(d, p) ==
    Then(read_atom_header(d, p), LAMBDA h :
    Then(top_atom_variant(d, h.name, h.size, h.pos), LAMBDA r :
         Boxed(p, h, r)))

----------------------------------------------------------------------------
(* The TIFF/EXIF directory decoder (src/tiff.rs)                            *)
(* A function that returns Result has st = "ok", "err" (an Err value) or   *)
(* "panic".                                                                *)

\* get_tiff_value_type_size: 0 stands for the Err of an unknown type
get_tiff_value_type_size(value_type) ==
    CASE value_type \in {1, 2, 6, 7} -> 1
      [] value_type \in {3, 8} -> 2
      [] value_type \in {4, 9, 11} -> 4
      [] value_type \in {5, 10, 12} -> 8
      [] OTHER -> 0

\* uN::from_be_bytes or uN::from_le_bytes, as the header's byte order says
unpack(b, endianness) ==
    IF endianness = "Big" THEN from_be_bytes(b) ELSE from_le_bytes(b)

\* iN::from_be_bytes (two's complement) of 1, 2 or 4 bytes
signed_be(b) ==
    (IF b[1] >= 128 THEN b[1] - 256 ELSE b[1])
        * (IF Len(b) = 1 THEN 1 ELSE IF Len(b) = 2 THEN 256 ELSE 16777216)
    + from_be_bytes(Tail(b))

signed_unpack(b, endianness) ==
    IF endianness = "Big" THEN signed_be(b) ELSE signed_be(Reverse(b))

\* One value of read_ifd_entry_values, from its value_type_size bytes
ifd_value(value_type, buf, endianness) ==
    CASE value_type = 1 -> [t |-> "BYTE", v |-> <<buf[1]>>]
      [] value_type = 2 -> [t |-> "ASCII", v |-> <<buf[1]>>]
      [] value_type = 3 -> [t |-> "SHORT", v |-> <<unpack(buf, endianness)>>]
      [] value_type = 4 -> [t |-> "LONG", v |-> <<unpack(buf, endianness)>>]
      [] value_type = 5 ->
            [t |-> "RATIONAL",
             v |-> <<unpack(SubSeq(buf, 1, 4), endianness),
                     unpack(SubSeq(buf, 5, 8), endianness)>>]
      [] value_type = 6 -> [t |-> "SBYTE", v |-> <<signed_be(buf)>>]
      [] value_type = 7 -> [t |-> "UNDEFINED", v |-> <<buf[1]>>]
      [] value_type = 8 ->
            [t |-> "SSHORT", v |-> <<signed_unpack(buf, endianness)>>]
      [] value_type = 9 ->
            \* both arms of the source call i32::from_be_bytes
            [t |-> "SLONG", v |-> <<signed_be(buf)>>]
      [] value_type = 10 ->
            [t |-> "SRATIONAL",
             v |-> <<signed_unpack(SubSeq(buf, 1, 4), endianness),
                     signed_unpack(SubSeq(buf, 5, 8), endianness)>>]
      [] value_type = 11 ->
            \* the bits of the f32, most significant byte first
            [t |-> "FLOAT",
             v |-> IF endianness = "Big" THEN buf ELSE Reverse(buf)]
      [] OTHER ->
            \* value_type = 12: the bits of the f64
            [t |-> "DOUBLE",
             v |-> IF endianness = "Big" THEN buf ELSE Reverse(buf)]

\* read_ifd_entry_values: value_count values of value_type_size bytes each
read_ifd_entry_values(value_type, value_type_size, value_count, endianness, d, p) ==
    IF ~CanRead(d, p, Mul(value_count, value_type_size))
    THEN [st |-> "panic", pos |-> p]
    ELSE [st |-> "ok", pos |-> p + value_count * value_type_size,
          values |->
            [i \in 1..value_count |->
               ifd_value(value_type,
                         Slice(d, p + (i - 1) * value_type_size, value_type_size),
                         endianness)]]

\* restore_position without the 4 bytes of the value field
restore_position_unskipped(original_position) == original_position

\* The cursor position read_ifd_entry leaves, from the position it saved
\* after the value count
restore_position(original_position) == original_position + 4

\* read_ifd_entry; at = where the values were read, for the properties
read_ifd_entry(d, p, endianness) ==
    IF ~CanRead(d, p, 8) THEN [st |-> "panic", pos |-> p]
    ELSE
    Let(unpack(Slice(d, p, 2), endianness), LAMBDA tag :
    Let(unpack(Slice(d, p + 2, 2), endianness), LAMBDA value_type :
    Let(unpack(Slice(d, p + 4, 4), endianness), LAMBDA value_count :
    Let(get_tiff_value_type_size(value_type), LAMBDA value_type_size :
    Let(Mul(value_count, value_type_size), LAMBDA size_of_all_values :
    Let(p + 8, LAMBDA original_position :
    IF value_type_size = 0 THEN [st |-> "err", pos |-> original_position]
    ELSE IF size_of_all_values > 4 /\ ~CanRead(d, original_position, 4)
    THEN [st |-> "panic", pos |-> p]
    ELSE
    Let(IF size_of_all_values > 4
        THEN unpack(Slice(d, original_position, 4), endianness)
        ELSE original_position, LAMBDA at :
    Let(read_ifd_entry_values(value_type, value_type_size, value_count,
                              endianness, d, at), LAMBDA r :
    IF r.st # "ok" THEN [st |-> "panic", pos |-> p]
    ELSE [st |-> "ok", pos |-> restore_position(original_position),
          entry |-> [tag |-> tag, values |-> r.values],
          e |-> p, at |-> at, value_type |-> value_type,
          value_count |-> value_count]))))))))

\* The dispatch table of TiffTag::try_from: tag id, variant, conversion
TiffTagTable ==
    { <<0, "GPSVersionID", "u8x4">>, <<1, "GPSLatitudeRef", "string">>,
      <<2, "GPSLatitude", "f64x3">>, <<3, "GPSLongitudeRef", "string">>,
      <<4, "GPSLongitude", "f64x3">>, <<5, "GPSAltitudeRef", "u8enum">>,
      <<6, "GPSAltitude", "f64">>, <<7, "GPSTimeStamp", "f64x3">>,
      <<8, "GPSSatellites", "string">>, <<9, "GPSStatus", "string">>,
      <<16, "GPSImgDirectionRef", "string">>,
      <<17, "GPSImgDirection", "f64">>, <<18, "GPSMapDatum", "string">>,
      <<29, "GPSDateStamp", "string">>, <<259, "Compression", "u16enum">>,
      <<270, "ImageDescription", "string">>, <<271, "Make", "string">>,
      <<272, "Model", "string">>, <<282, "XResolution", "f64">>,
      <<283, "YResolution", "f64">>, <<296, "ResolutionUnit", "u16enum">>,
      <<274, "Orientation", "u16">>, <<305, "Software", "string">>,
      <<306, "DateTime", "string">>, <<315, "Artist", "string">>,
      <<33432, "Copyright", "string">>,
      <<33434, "ExposureTime", "rational_repr">>,
      <<33437, "FNumber", "rational_repr">>,
      <<34665, "ExifIfdPointer", "u32">>,
      <<34850, "ExposureProgram", "u16enum">>,
      <<34853, "GpsIfdPointer", "u32">>,
      <<36864, "ExifVersion", "undefined_string">>,
      <<36867, "DateTimeOriginal", "string">>,
      <<36868, "DateTimeDigitized", "string">>,
      <<37122, "CompressedBitsPerPixel", "rational_repr">>,
      <<37377, "ShutterSpeedValue", "rational_repr">>,
      <<37378, "ApertureValue", "rational_repr">>,
      <<37380, "ExposureBiasValue", "rational_repr">>,
      <<37381, "MaxApertureValue", "rational_repr">>,
      <<37383, "MeteringMode", "u16enum">>,
      <<37384, "LightSource", "u16enum">>, <<37385, "Flash", "u16enum">>,
      <<37386, "FocalLength", "rational_repr">>,
      <<37500, "MakerNote", "bytes">>,
      <<37510, "UserComment", "usercomment">>,
      <<37520, "SubsecTime", "string">>,
      <<37521, "SubsecTimeOriginal", "string">>,
      <<37522, "SubsecTimeDigitized", "string">>,
      <<40960, "FlashpixVersion", "undefined_string">>,
      <<40962, "PixelXDimension", "ushort_or_ulong">>,
      <<40963, "PixelYDimension", "ushort_or_ulong">>,
      <<41486, "FocalPlaneXResolution", "rational_repr">>,
      <<41487, "FocalPlaneYResolution", "rational_repr">>,
      <<41488, "FocalPlaneResolutionUnit", "u16enum">>,
      <<41495, "SensingMethod", "u16enum">>,
      <<41986, "ExposureMode", "u16enum">>,
      <<41987, "WhiteBalance", "u16enum">>,
      <<41988, "DigitalZoomRatio", "rational_repr">>,
      <<41989, "FocalLengthIn35mmFilm", "u16">>,
      <<41990, "SceneCaptureType", "u16enum">>,
      <<41991, "GainControl", "u16enum">>, <<41992, "Contrast", "u16enum">>,
      <<41993, "Saturation", "u16enum">>, <<41994, "Sharpness", "u16enum">>,
      <<41996, "SubjectDistanceRange", "u16enum">> }

\* TiffTagRow with the fallback arm converting the entry to a string
TiffTagRow_strict(tag) ==
    IF \E t \in TiffTagTable : t[1] = tag
    THEN CHOOSE t \in TiffTagTable : t[1] = tag
    ELSE <<tag, "Unknown", "string">>

\* The arm of the match of TiffTag::try_from on entry.tag: the row of the
\* tag id, the arm _ => Ok(TiffTag::Unknown(entry)) for any other id
TiffTagRow(tag) ==
    IF \E t \in TiffTagTable : t[1] = tag
    THEN CHOOSE t \in TiffTagTable : t[1] = tag
    ELSE <<tag, "Unknown", "entry">>

ValueTypes(entry) == {entry.values[i].t : i \in 1..Len(entry.values)}

Scalars(entry) == [i \in 1..Len(entry.values) |-> entry.values[i].v[1]]

\* TryInto<String> for IFDEntry: ASCII(0) is skipped, ASCII(b) is pushed
IFDEntry_into_String(entry) ==
    IF ValueTypes(entry) \subseteq {"ASCII"}
    THEN [st |-> "ok",
          val |-> from_utf8_lossy(SelectSeq(Scalars(entry), LAMBDA b : b # 0))]
    ELSE [st |-> "err"]

\* TryInto<Vec<u8>> for IFDEntry
IFDEntry_into_Vec_u8(entry) ==
    IF ValueTypes(entry) \subseteq {"BYTE", "ASCII", "UNDEFINED"}
    THEN [st |-> "ok", val |-> Scalars(entry)]
    ELSE [st |-> "err"]

\* TryInto<u8>, TryInto<u16>, TryInto<u32> for IFDEntry: get_single_value,
\* then the one accepted type
IFDEntry_into_single(entry, types) ==
    IF Len(entry.values) = 1 /\ entry.values[1].t \in types
    THEN [st |-> "ok", val |-> entry.values[1].v[1]]
    ELSE [st |-> "err"]

\* (a as f64) / (b as f64), kept as the pair; a DOUBLE keeps its bits
f64_of(value) == [t |-> value.t, v |-> value.v]

\* TryInto<f64> for IFDEntry
IFDEntry_into_f64(entry) ==
    IF Len(entry.values) = 1
       /\ entry.values[1].t \in {"RATIONAL", "SRATIONAL", "DOUBLE"}
    THEN [st |-> "ok", val |-> f64_of(entry.values[1])]
    ELSE [st |-> "err"]

\* TryInto<Vec<f64>> for IFDEntry
IFDEntry_into_Vec_f64(entry) ==
    IF ValueTypes(entry) \subseteq {"RATIONAL", "SRATIONAL", "DOUBLE"}
    THEN [st |-> "ok",
          val |-> [i \in 1..Len(entry.values) |-> f64_of(entry.values[i])]]
    ELSE [st |-> "err"]

\* vec_to_array::<T, N>
vec_to_array(r, N) ==
    IF r.st = "ok" /\ Len(r.val) # N THEN [st |-> "err"] ELSE r

\* get_rational_repr_from_ifd_entry: format!("{}/{}", a, b), kept as (a, b)
get_rational_repr_from_ifd_entry(entry) ==
    IF Len(entry.values) = 1 /\ entry.values[1].t \in {"RATIONAL", "SRATIONAL"}
    THEN [st |-> "ok", val |-> entry.values[1].v]
    ELSE [st |-> "err"]

\* get_string_from_entry_with_undefined_values
get_string_from_entry_with_undefined_values(entry) ==
    IF ValueTypes(entry) \subseteq {"UNDEFINED"}
    THEN [st |-> "ok", val |-> from_utf8_lossy(Scalars(entry))]
    ELSE [st |-> "err"]

\* get_ushort_or_ulong_from_entry
get_ushort_or_ulong_from_entry(entry) ==
    IF Len(entry.values) = 1 /\ entry.values[1].t \in {"SHORT", "LONG"}
    THEN [st |-> "ok", val |-> entry.values[1].v[1]]
    ELSE [st |-> "err"]

\* The UserComment arm of TiffTag::try_from: data[0..8] is the encoding
\* prefix, data[8..data.len()-1] the text; both slices panic out of range
user_comment(entry) ==
    Let(IFDEntry_into_Vec_u8(entry), LAMBDA r :
        IF r.st # "ok" THEN r
        ELSE IF Len(r.val) < 9 THEN [st |-> "panic"]
        ELSE [st |-> "ok",
              val |-> from_utf8_lossy(SubSeq(r.val, 9, Len(r.val) - 1))])

\* The conversion an arm of TiffTag::try_from applies to its entry
TiffTag_value(entry, c) ==
    CASE c = "string" -> IFDEntry_into_String(entry)
      [] c = "u8x4" -> vec_to_array(IFDEntry_into_Vec_u8(entry), 4)
      [] c = "f64x3" -> vec_to_array(IFDEntry_into_Vec_f64(entry), 3)
      [] c = "u8enum" -> IFDEntry_into_single(entry, {"BYTE"})
      [] c = "f64" -> IFDEntry_into_f64(entry)
      [] c \in {"u16enum", "u16"} -> IFDEntry_into_single(entry, {"SHORT"})
      [] c = "u32" -> IFDEntry_into_single(entry, {"LONG"})
      [] c = "rational_repr" -> get_rational_repr_from_ifd_entry(entry)
      [] c = "undefined_string" ->
            get_string_from_entry_with_undefined_values(entry)
      [] c = "bytes" -> IFDEntry_into_Vec_u8(entry)
      [] c = "usercomment" -> user_comment(entry)
      [] c = "ushort_or_ulong" -> get_ushort_or_ulong_from_entry(entry)
      [] OTHER -> [st |-> "ok", val |-> entry]

\* TiffTag::try_from.  A coded field (compression, flash, ...) keeps its
\* code: the label the source picks for it is a function of the code alone.
TiffTag_try_from(entry) ==
    Let(TiffTagRow(entry.tag), LAMBDA row :
    Let(TiffTag_value(entry, row[3]), LAMBDA r :
        IF r.st = "ok"
        THEN [st |-> "ok", tag |-> [variant |-> row[2], id |-> entry.tag,
                                    value |-> r.val]]
        ELSE r))

\* The first failing conversion of a list of conversions, "ok" if none
first_failure(rs) ==
    IF \A i \in 1..Len(rs) : rs[i].st = "ok" THEN "ok"
    ELSE rs[CHOOSE i \in 1..Len(rs) :
              /\ rs[i].st # "ok"
              /\ \A j \in 1..(i - 1) : rs[j].st = "ok"].st

\* ifd_entries_to_tiff_tags: the first failing entry fails the whole list
ifd_entries_to_tiff_tags(entries) ==
    Let([i \in 1..Len(entries) |-> TiffTag_try_from(entries[i])], LAMBDA rs :
        IF first_failure(rs) = "ok"
        THEN [st |-> "ok", tags |-> [i \in 1..Len(entries) |-> rs[i].tag]]
        ELSE [st |-> first_failure(rs)])

----------------------------------------------------------------------------
(* The JPEG marker scanner (src/jpeg.rs)                                    *)

\* impl From<u8> for JpegMarker
JpegMarker_from(value) ==
    CASE value = 192 -> "SOF0" [] value = 193 -> "SOF1"
      [] value = 194 -> "SOF2" [] value = 195 -> "SOF3"
      [] value = 196 -> "DHT"
      [] value = 208 -> "RST0" [] value = 209 -> "RST1"
      [] value = 210 -> "RST2" [] value = 211 -> "RST3"
      [] value = 224 -> "APP0" [] value = 225 -> "APP1"
      [] value = 226 -> "APP2"
      [] value = 218 -> "SOS" [] value = 219 -> "DQT"
      [] value = 221 -> "DRI" [] value = 254 -> "COM"
      [] OTHER -> "UNKNOWN"

\* read_section with the cursor moved by the marker and the payload only,
\* not by the two bytes of the length
read_section_unsized(d, p) ==
    IF ~CanRead(d, p, 2) THEN Panic(p)
    ELSE IF d[p + 1] # 255 THEN Panic(p)
    ELSE IF ~CanRead(d, p + 2, 2) THEN Panic(p)
    ELSE LET length == from_be_bytes(Slice(d, p + 2, 2))
         IN  IF length < 2 THEN Panic(p)
             ELSE IF ~CanRead(d, p + 4, length - 2) THEN Panic(p)
             ELSE [ok |-> TRUE, pos |-> p + 2 + (length - 2),
                   marker |-> [name |-> JpegMarker_from(d[p + 2]),
                               value |-> d[p + 2]],
                   section_data |-> Slice(d, p + 4, length - 2)]

\* The head of one iteration of the loop of get_jpeg_sections: the marker,
\* the length and the payload of length - 2 bytes
read_section(d, p) ==
    IF ~CanRead(d, p, 2) THEN Panic(p)
    ELSE IF d[p + 1] # 255 THEN Panic(p)
    ELSE IF ~CanRead(d, p + 2, 2) THEN Panic(p)
    ELSE LET length == from_be_bytes(Slice(d, p + 2, 2))
         IN  IF length < 2 THEN Panic(p)
             ELSE IF ~CanRead(d, p + 4, length - 2) THEN Panic(p)
             ELSE [ok |-> TRUE, pos |-> p + 4 + (length - 2),
                   marker |-> [name |-> JpegMarker_from(d[p + 2]),
                               value |-> d[p + 2]],
                   section_data |-> Slice(d, p + 4, length - 2)]

\* ends_scan without the test for the restart markers
ends_scan_at_restart(buf) == buf[1] = 255 /\ buf[2] \notin {0, 255}

\* The test that ends the entropy-coded data, on buf after a read:
\* buf[0] == 0xFF && ![0, 0xFF].contains(&buf[1]) && !(0xD0..0xD8).contains(&buf[1])
ends_scan(buf) ==
    buf[1] = 255 /\ buf[2] \notin {0, 255} /\ ~(208 <= buf[2] /\ buf[2] < 216)

\* first_section with the last section of the marker instead of the first
last_section(secs, name) ==
    LET hits == {i \in 1..Len(secs) : secs[i].marker.name = name}
    IN  IF hits = {} THEN <<>>
        ELSE <<secs[CHOOSE i \in hits : \A j \in hits : i >= j].section_data>>

\* The first section with a marker, as sections.iter().filter(..).next()
first_section(secs, name) ==
    LET hits == {i \in 1..Len(secs) : secs[i].marker.name = name}
    IN  IF hits = {} THEN <<>>
        ELSE <<secs[CHOOSE i \in hits : \A j \in hits : i <= j].section_data>>

----------------------------------------------------------------------------
(* The item resolver (src/heif/heif.rs)                                     *)

\* find_atom_value!(atoms, variant): the first atom of that variant
find_atom_value(as, variant) ==
    LET hits == {i \in 1..Len(as) : as[i].variant = variant}
    IN  IF hits = {} THEN <<>>
        ELSE <<as[CHOOSE i \in hits : \A j \in hits : i <= j]>>

\* get_iloc_item_for_item_type
get_iloc_item_for_item_type(as, item_type) ==
    LET meta == find_atom_value(as, "Meta")
    IN  IF meta = <<>> THEN <<>>
        ELSE
        LET iinf == find_atom_value(meta[1].children, "MetaIinf")
            iloc == find_atom_value(meta[1].children, "MetaIloc")
        IN  IF iinf = <<>> \/ iloc = <<>> THEN <<>>
            ELSE
            LET es   == iinf[1].children
                hits == {i \in 1..Len(es) :
                           /\ es[i].value.value.shape = "V2Or3"
                           /\ es[i].value.value.item_type = item_type}
            IN  IF hits = {} THEN <<>>
                ELSE
                LET id   == es[CHOOSE i \in hits : \A j \in hits : i <= j]
                                .value.value.item_id
                    its  == iloc[1].value.items
                    same == {i \in 1..Len(its) : its[i].item_id = id}
                IN  IF same = {} THEN <<>>
                    ELSE <<its[CHOOSE i \in same : \A j \in same : i <= j]>>

\* get_exif up to its call of read_exif_section, on the item of type Exif:
\* st = "none" (no item), "panic" or "some" with the bytes handed to
\* read_exif_section
get_exif_item(item, d) ==
    IF item = <<>> THEN [st |-> "none"]
    ELSE IF item[1].extents = <<>> THEN [st |-> "panic"]
    ELSE Let(item[1].extents[1].extent_offset, LAMBDA start :
         Let(item[1].extents[1].extent_length, LAMBDA length :
             IF length < 4 THEN [st |-> "panic"]
             ELSE IF ~CanRead(d, start + 4, length - 4) THEN [st |-> "panic"]
             ELSE [st |-> "some", start |-> start + 4,
                   data |-> Slice(d, start + 4, length - 4)]))

get_exif(as, d) == get_exif_item(get_iloc_item_for_item_type(as, N_Exif), d)

\* get_xmp_item with the item unwrapped instead of returned with ?
get_xmp_item_unwrapped(item, d) ==
    IF item = <<>> THEN [st |-> "panic"]
    ELSE IF item[1].extents = <<>> THEN [st |-> "panic"]
    ELSE IF ~CanRead(d, item[1].extents[1].extent_offset,
                     item[1].extents[1].extent_length)
    THEN [st |-> "panic"]
    ELSE [st |-> "some",
          data |-> from_utf8_lossy(Slice(d, item[1].extents[1].extent_offset,
                                         item[1].extents[1].extent_length))]

\* get_xmp, on the item of type mime
get_xmp_item(item, d) ==
    IF item = <<>> THEN [st |-> "none"]
    ELSE IF item[1].extents = <<>> THEN [st |-> "panic"]
    ELSE Let(item[1].extents[1].extent_offset, LAMBDA start :
         Let(item[1].extents[1].extent_length, LAMBDA length :
             IF ~CanRead(d, start, length) THEN [st |-> "panic"]
             ELSE [st |-> "some",
                   data |-> from_utf8_lossy(Slice(d, start, length))]))

get_xmp(as, d) == get_xmp_item(get_iloc_item_for_item_type(as, N_mime), d)

----------------------------------------------------------------------------
(* Bounds of the input buffers                                             *)

MaxBrands == 1      \* compatible brands of an ftyp box
MaxChildren == 2    \* sub-boxes of a meta box
MaxPad == 1         \* unread bytes at the end of a sub-box
MaxInfe == 2        \* infe entries of an iinf box
MaxItems == 1       \* items of an iloc box
MaxExtents == 1     \* extents of an iloc item
MaxPayload == 9     \* payload bytes of an opaque top-level box
MaxCount == 5       \* values of an IFD entry
MaxIfdEntries == 2  \* entries of an IFD
MaxScan == 3        \* bytes of entropy-coded data after a scan header
MaxCut == 2         \* bytes cut off the end of a truncated buffer
MaxEntries == 6     \* entries read_tiff collects before the model stops

----------------------------------------------------------------------------
(* Input buffers: encoders of the three formats                            *)

U16(n) == <<(n \div 256) % 256, n % 256>>

U32(n) == <<0, (n \div 65536) % 256>> \o U16(n)

U64(n) == <<0, 0, 0, 0>> \o U32(n)

\* n bytes b, b + 1, ...: every field of a buffer gets bytes of its own
Ramp(b, n) == [i \in 1..n |-> b + i - 1]

RECURSIVE Concat(_)
Concat(ss) == IF ss = <<>> THEN <<>> ELSE Head(ss) \o Concat(Tail(ss))

SeqsUpTo(S, n) == UNION {[1..k -> S] : k \in 0..n}

Box(name, payload) == U32(8 + Len(payload)) \o name \o payload

FullBox(name, version, payload) == Box(name, <<version, 0, 0, 0>> \o payload)

N_free == <<102, 114, 101, 101>>
N_mdat == <<109, 100, 97, 116>>
N_thmb == <<116, 104, 109, 98>>
N_pict == <<112, 105, 99, 116>>

FtypBox(k) ==
    Box(N_ftyp, <<104, 101, 105, 99>> \o U32(0) \o
                Concat([i \in 1..k |-> <<109, 105, 102, 48 + i>>]))

FreeBox(n) == Box(N_free, Ramp(65, n))

\* A sub-box of meta with the number of bytes its declared size holds
\* beyond the fields its version defines
Child(b, pad) == [b |-> b, pad |-> pad]

HdlrBox(n) ==
    FullBox(N_hdlr, 0, U32(0) \o N_pict \o U32(0) \o U32(0) \o U32(0)
                       \o Ramp(97, n) \o <<0>>)

PitmBox(version, pad) ==
    FullBox(N_pitm, version,
            (IF version = 0 THEN U16(7) ELSE U32(7)) \o Ramp(33, pad))

DinfBox(k) ==
    Box(N_dinf,
        FullBox(N_dref, 0,
                U32(k) \o Concat([i \in 1..k |-> FullBox(N_url, 0, Ramp(97, i))])))

IrefBox(version) ==
    FullBox(N_iref, version,
            Box(N_thmb, IF version = 0 THEN U16(2) \o U16(1) \o U16(1)
                        ELSE U32(2) \o U16(1) \o U32(1)))

\* The infe entries of the inputs: versions 2 and 3 of type Exif, mime (with
\* and without a content encoding) and uri, and versions 0 and 1
InfeBoxes ==
    { FullBox(N_infe, 2, U16(1) \o U16(0) \o N_Exif \o <<0>>),
      FullBox(N_infe, 3, U32(1) \o U16(0) \o N_Exif \o <<110, 0>>),
      FullBox(N_infe, 2, U16(2) \o U16(0) \o N_mime \o <<0>> \o <<97, 0>>),
      FullBox(N_infe, 2, U16(2) \o U16(0) \o N_mime \o <<0>> \o <<97, 0>>
                         \o <<98, 0>>),
      FullBox(N_infe, 2, U16(3) \o U16(0) \o N_uri \o <<0>> \o <<99, 0>>),
      FullBox(N_infe, 0, U16(4) \o U16(0) \o <<110, 0>> \o <<97, 0>>),
      FullBox(N_infe, 1, U16(5) \o U16(0) \o <<110, 0>> \o <<97, 0>>
                         \o <<98, 0>>) }

IinfBox(version, infes) ==
    FullBox(N_iinf, version,
            (IF version = 0 THEN U16(Len(infes)) ELSE U32(Len(infes)))
            \o Concat(infes))

\* A field of an iloc box of width w (0, 4 or 8) with bytes of its own
IlocField(w, b) ==
    CASE w = 0 -> <<>>
      [] w = 4 -> <<0, b, 0, b + 1>>
      [] OTHER -> <<0, 0, 0, 0, 0, b, 0, b + 1>>

IlocExtent(version, os, ls, is, b) ==
    (IF version \in {1, 2} THEN IlocField(is, b) ELSE <<>>)
    \o IlocField(os, b + 3) \o IlocField(ls, b + 6)

IlocItem(version, os, ls, bs, is, id, extents) ==
    (IF version = 2 THEN U32(id) ELSE U16(id))
    \o (IF version \in {1, 2} THEN U16(4096 + 16 * id + 1) ELSE <<>>)
    \o U16(0) \o IlocField(bs, 10 * id)
    \o U16(extents)
    \o Concat([e \in 1..extents |->
                 IlocExtent(version, os, ls, is, 100 + 40 * id + 10 * e)])

\* The packed bytes hold, nibble by nibble from the high-order one,
\* offset_size, length_size, base_offset_size, index_size
IlocBox(version, os, ls, bs, is, items, extents) ==
    FullBox(N_iloc, version,
            <<16 * os + ls, 16 * bs + is>>
            \o (IF version = 2 THEN U32(items) ELSE U16(items))
            \o Concat([i \in 1..items |->
                         IlocItem(version, os, ls, bs, is, i, extents)]))

MetaBox(children) == FullBox(N_meta, 0, Concat(children))

\* The sub-boxes of the box streams: every one holds exactly the fields its
\* version defines
BasicChildren ==
    {Child(HdlrBox(1), 0), Child(FreeBox(1), 0),
     Child(IlocBox(0, 4, 4, 0, 0, 1, 1), 0)}
    \cup {Child(PitmBox(v, 0), 0) : v \in {0, 1}}
    \cup {Child(DinfBox(k), 0) : k \in 0..1}
    \cup {Child(IrefBox(v), 0) : v \in {0, 1}}

\* A pitm box whose declared size holds pad bytes beyond its item id
PaddedChildren ==
    {Child(PitmBox(v, pad), pad) : v \in {0, 1}, pad \in 1..MaxPad}

\* An input: the entry point, the family of the buffer, whether every box
\* of it holds exactly the fields its version defines, the number of its
\* top-level boxes and the buffer
Input(k, family, wf, boxes, d) ==
    [kind |-> k, family |-> family, wf |-> wf, boxes |-> boxes, data |-> d]

\* ftyp, a meta box of up to MaxChildren sub-boxes, a free box; and the
\* same with a padded sub-box before or after another sub-box
StreamInputs ==
    {Input("heif", "stream", TRUE, 3,
           FtypBox(k) \o MetaBox([i \in 1..Len(cs) |-> cs[i].b]) \o FreeBox(1))
       : k \in 0..MaxBrands, cs \in SeqsUpTo(BasicChildren, MaxChildren)}
    \cup
    {Input("heif", "padded", FALSE, 3,
           FtypBox(0) \o MetaBox(cs) \o FreeBox(1))
       : cs \in {<<c.b, q.b>> : c \in BasicChildren, q \in PaddedChildren}
               \cup {<<q.b, c.b>> : c \in BasicChildren, q \in PaddedChildren}}

\* a meta box holding one iinf box of up to MaxInfe entries, a free box
IinfInputs ==
    {Input("heif", "iinf", TRUE, 2,
           MetaBox(<<IinfBox(v, es)>>) \o FreeBox(0))
       : v \in {0, 1}, es \in SeqsUpTo(InfeBoxes, MaxInfe)}

Widths == {0, 4, 8}

\* a meta box holding one iloc box, the last box of the buffer
IlocInputs ==
    {Input("heif", "iloc", TRUE, 1,
           MetaBox(<<IlocBox(c[1], c[2], c[3], c[4], c[5], c[6], c[7])>>))
       : c \in {0, 1, 2} \X Widths \X Widths \X Widths \X Widths
               \X (0..MaxItems) \X (0..MaxExtents)}

\* a box whose 32-bit size field is 1 and whose size is the 64-bit field
\* after the name, then a free box
LargeBox(name, n) == U32(1) \o name \o U64(16 + n) \o Ramp(65, n)

LargeInputs ==
    {Input("heif", "large", TRUE, 2, LargeBox(N_mdat, n) \o FreeBox(m))
       : n \in 0..MaxPayload, m \in 0..1}

\* ftyp, then a box whose 32-bit size field is 0, up to the end of buffer
ToEndBox(name, n) == U32(0) \o name \o Ramp(65, n)

ToEndInputs ==
    {Input("heif", "toend", TRUE, 2, FtypBox(0) \o ToEndBox(N_mdat, n))
       : n \in 0..MaxPayload}

\* ftyp and a meta box of one sub-box, cut short
CutHeifInputs ==
    {Input("heif", "cut", FALSE, 2,
           SubSeq(b, 1, Len(b) - cut))
       : cut \in 1..MaxCut,
         b \in {FtypBox(1) \o MetaBox(<<c.b>>) : c \in BasicChildren}}

----------------------------------------------------------------------------
(* TIFF input buffers                                                      *)

E16(n, o) == IF o = "Big" THEN U16(n) ELSE Reverse(U16(n))

E32(n, o) == IF o = "Big" THEN U32(n) ELSE Reverse(U32(n))

OrderMark(o) == IF o = "Big" THEN <<77, 77>> ELSE <<73, 73>>

\* byte order, magic 42, the offset of the first IFD
TiffHeader(o) == OrderMark(o) \o E16(42, o) \o E32(8, o)

IfdEntry(tag, type, count, field, o) ==
    E16(tag, o) \o E16(type, o) \o E32(count, o) \o field

Ifd(entries, next, o) ==
    E16(Len(entries), o) \o Concat(entries) \o E32(next, o)

\* the length of an IFD of n entries
IfdLen(n) == 2 + 12 * n + 4

Orders == {"Big", "Little"}

\* a SHORT entry whose value lies in the entry
ShortEntry(tag, v, o) == IfdEntry(tag, 3, 1, E16(v, o) \o <<0, 0>>, o)

\* a LONG entry whose value lies in the entry
LongEntry(tag, v, o) == IfdEntry(tag, 4, 1, E32(v, o), o)

\* One IFD at offset 8: a first entry of every value type (0 and 13 are no
\* TIFF types) and every count up to MaxCount, whose values lie in the
\* entry, after the IFD, or (where = 0) at the start of the buffer; then k
\* SHORT entries
EntryInputs ==
    {Input("tiff", "entry", TRUE, 0,
           LET size == c[3] * get_tiff_value_type_size(c[2])
               n    == 1 + c[5]
               off  == IF c[4] = 0 THEN 0 ELSE 8 + IfdLen(n)
               e1   == IfdEntry(4660, c[2], c[3],
                                IF size > 4 THEN E32(off, c[1])
                                ELSE Ramp(17, 4), c[1])
           IN  TiffHeader(c[1])
               \o Ifd(<<e1>> \o [i \in 1..c[5] |-> ShortEntry(4660 + i, i, c[1])],
                      0, c[1])
               \o (IF size > 4 /\ c[4] = 1 THEN Ramp(33, size) ELSE <<>>))
       : c \in Orders \X (0..13) \X (0..MaxCount) \X {0, 1}
               \X (0..(MaxIfdEntries - 1))}

\* The entry of a sub-directory: a Make string, an Exif pointer, an Exif
\* pointer of type SHORT
SubEntry(k, o) ==
    CASE k = 1 -> IfdEntry(271, 2, 3, <<78, 73, 0, 0>>, o)
      [] k = 2 -> LongEntry(34665, 8, o)
      [] OTHER -> ShortEntry(34665, 8, o)

\* Two IFDs in a chain (the second one ends the chain or points back to
\* the first), and an IFD whose Exif or GPS pointer names a sub-directory
\* that holds a Make string, a pointer of its own or a mistyped pointer
ChainInputs ==
    {Input("tiff", "chain", TRUE, 0,
           TiffHeader(o)
           \o Ifd(<<ShortEntry(274, 1, o)>>, 8 + IfdLen(1), o)
           \o Ifd(<<ShortEntry(274, 2, o)>>, next, o))
       : o \in Orders, next \in {0, 8}}
    \cup
    {Input("tiff", "pointer", TRUE, 0,
           TiffHeader(o)
           \o Ifd(<<LongEntry(ptr, 8 + IfdLen(1), o)>>, 0, o)
           \o Ifd(<<SubEntry(k, o)>>, 0, o))
       : ptr \in {34665, 34853}, o \in Orders, k \in 1..3}

\* One IFD with a Make entry of type ASCII whose text lies in the entry
\* (NULs at the end, in the middle, at the start, none), or with a
\* UserComment entry of type UNDEFINED whose bytes (an encoding prefix of
\* 8 bytes and a text) lie after the IFD
CommentPrefixes ==
    { <<65, 83, 67, 73, 73, 0, 0, 0>>, <<74, 73, 83, 0, 0, 0, 0, 0>>,
      <<85, 78, 73, 67, 79, 68, 69, 0>>, <<88, 88, 88, 88, 88, 88, 88, 88>> }

TextInputs ==
    {Input("tiff", "text", TRUE, 0,
           TiffHeader(o)
           \o Ifd(<<IfdEntry(271, 2, Len(t), t \o [i \in 1..(4 - Len(t)) |-> 0],
                             o)>>, 0, o))
       : o \in Orders,
         t \in { <<65, 66, 0>>, <<65, 66, 0, 0>>, <<65, 0, 66, 0>>,
                 <<0, 65, 66, 0>>, <<65, 66, 67, 68>>, <<0, 0>> }}
    \cup
    {Input("tiff", "text", TRUE, 0,
           TiffHeader(o)
           \o Ifd(<<IfdEntry(37510, 7, Len(pre \o t),
                             E32(8 + IfdLen(1), o), o)>>, 0, o)
           \o pre \o t)
       : o \in Orders, pre \in CommentPrefixes,
         t \in { <<>>, <<104>>, <<104, 105>>, <<104, 0>>, <<195, 169>> }}

\* A small TIFF buffer cut at every length, and buffers whose first two
\* bytes are no byte order mark
SmallTiff(o) == TiffHeader(o) \o Ifd(<<ShortEntry(274, 1, o)>>, 0, o)

HeaderInputs ==
    {Input("tiff", "cut", FALSE, 0, SubSeq(SmallTiff(o), 1, n))
       : o \in Orders, n \in 0..(Len(SmallTiff("Big")) - 1)}
    \cup
    {Input("tiff", "order", TRUE, 0, mark \o SubSeq(SmallTiff("Big"), 3, n))
       : mark \in {<<88, 88>>, <<73, 77>>, <<77, 73>>, <<0, 0>>},
         n \in 2..Len(SmallTiff("Big"))}
    \cup
    {Input("tiff", "magic", TRUE, 0,
           OrderMark(o) \o E16(43, o) \o SubSeq(SmallTiff(o), 5, Len(SmallTiff(o))))
       : o \in Orders}

----------------------------------------------------------------------------
(* JPEG input buffers                                                      *)

SOI == <<255, 216>>

EOI == <<255, 217>>

Segment(marker, payload) == <<255, marker>> \o U16(2 + Len(payload)) \o payload

ExifPrefix == N_Exif \o <<0, 0>>

\* the bytes of the entropy-coded data: a stuffed zero, 0xCF, the restart
\* markers 0xD0 and 0xD7, 0xD8 and 0xFF
ScanBytes == {0, 207, 208, 215, 216, 255}

\* what follows the entropy-coded data: nothing, the end-of-image marker,
\* the rest of a segment whose marker ends the data, a whole COM segment
Tails ==
    { <<>>, EOI, <<0, 3, 65>> \o EOI, Segment(254, <<104, 105>>) \o EOI }

\* a start-of-scan segment, up to MaxScan bytes of data and a tail; a
\* start-of-scan segment with an empty header, up to one byte of data
ScanInputs ==
    {Input("jpeg", "scan", TRUE, 0, SOI \o Segment(218, <<1>>) \o bs \o t)
       : bs \in SeqsUpTo(ScanBytes, MaxScan), t \in Tails}
    \cup
    {Input("jpeg", "scan", TRUE, 0, SOI \o Segment(218, <<>>) \o bs \o t)
       : bs \in SeqsUpTo(ScanBytes, 1), t \in Tails}

\* a marker whose first byte is not 0xFF, a length below 2, a buffer of
\* less than two bytes, a JPEG cut short
BadJpegInputs ==
    {Input("jpeg", "marker", TRUE, 0,
           SOI \o pre \o <<b, 224>> \o U16(4) \o <<1, 2>> \o EOI)
       : b \in {0, 254}, pre \in {<<>>, Segment(224, <<7>>)}}
    \cup
    {Input("jpeg", "length", TRUE, 0, SOI \o <<255, 224>> \o U16(n) \o EOI)
       : n \in 0..1}
    \cup
    {Input("jpeg", "cut", FALSE, 0,
           SubSeq(SOI \o Segment(224, <<7, 8>>) \o EOI, 1, n))
       : n \in 0..9}

\* APP1 segments (Exif with a TIFF payload, XMP, too short to tell) and
\* COM segments (ASCII text; a two-byte sequence and a stray continuation
\* byte)
App1Inputs ==
    {Input("jpeg", "app1", TRUE, 0,
           SOI \o Concat(segs) \o EOI)
       : segs \in SeqsUpTo(
            { Segment(225, ExifPrefix \o SmallTiff("Little")),
              Segment(225, ExifPrefix \o <<88, 88>>),
              Segment(225, <<104, 116, 116, 112, 58>>),
              Segment(225, <<69, 120>>),
              Segment(254, <<104, 105>>),
              Segment(254, <<111>>),
              Segment(254, <<195, 169, 128>>) }, 2)}

----------------------------------------------------------------------------
(* HEIF buffers with an Exif item                                          *)

\* ftyp, a meta box whose iinf names item 1 as Exif and whose iloc (version
\* 0, 4-byte offsets and lengths) places item id at (offset, length), and
\* an mdat box holding a 4-byte prefix, "Exif\0\0" and a TIFF buffer
ExifIloc(id, offset, length) ==
    FullBox(N_iloc, 0,
            <<68, 0>> \o U16(1)
            \o U16(id) \o U16(0) \o U16(1) \o U32(offset) \o U32(length))

ExifMeta(id, offset, length) ==
    MetaBox(<<IinfBox(0, <<FullBox(N_infe, 2,
                                   U16(1) \o U16(0) \o N_Exif \o <<0>>)>>),
              ExifIloc(id, offset, length)>>)

ExifItemAt == Len(FtypBox(0)) + Len(ExifMeta(1, 0, 0)) + 8

ExifInputs ==
    {Input("heif", "exif", TRUE, 3,
           FtypBox(0) \o ExifMeta(id, ExifItemAt, 4 + Len(payload))
           \o Box(N_mdat, U32(6) \o payload))
       : id \in {1, 2},
         payload \in { ExifPrefix \o SmallTiff("Big"),
                       ExifPrefix \o <<88, 88>>,
                       ExifPrefix }}

\* ftyp and a meta box whose iinf holds, after k infe entries, a free box
\* where an infe entry is due, or whose dref holds, after k url entries, a
\* free box where a data reference is due
ChildInputs ==
    {Input("heif", "child", FALSE, 2,
           FtypBox(0)
           \o MetaBox(<<IinfBox(v, [i \in 1..k |->
                                     FullBox(N_infe, 2,
                                             U16(i) \o U16(0) \o N_Exif \o <<0>>)]
                                  \o <<FreeBox(1)>>)>>))
       : v \in {0, 1}, k \in 0..1}
    \cup
    {Input("heif", "child", FALSE, 2,
           FtypBox(0)
           \o MetaBox(<<Box(N_dinf,
                            FullBox(N_dref, 0,
                                    U32(k + 1)
                                    \o Concat([i \in 1..k |->
                                                 FullBox(N_url, 0, Ramp(97, i))])
                                    \o FreeBox(1)))>>))
       : k \in 0..1}

\* The width codes of the iloc boxes of the family "width": one code at
\* least of a pair packed in one byte is none of 0, 4, 8
BadWidths == {<<2, 4>>, <<4, 2>>, <<1, 15>>}

\* ftyp and a meta box holding one iloc box of up to MaxItems items of one
\* extent whose offset_size or length_size (any version) or whose
\* base_offset_size or index_size (version 1) is no width code
WidthInputs ==
    {Input("heif", "width", FALSE, 2,
           FtypBox(0) \o MetaBox(<<IlocBox(v, w[1], w[2], 4, 4, n, 1)>>))
       : v \in {0, 1, 2}, w \in BadWidths, n \in 0..MaxItems}
    \cup
    {Input("heif", "width", FALSE, 2,
           FtypBox(0) \o MetaBox(<<IlocBox(1, 4, 4, w[1], w[2], n, 1)>>))
       : w \in BadWidths, n \in 0..MaxItems}

\* a meta box whose iinf holds an infe entry of a version above 3 with n
\* payload bytes, followed or not by a version 2 entry; a free box
OpaqueInputs ==
    {Input("heif", "opaque", TRUE, 2,
           MetaBox(<<IinfBox(0, <<FullBox(N_infe, v, Ramp(97, n))>> \o more)>>)
           \o FreeBox(0))
       : v \in {4, 5}, n \in 0..MaxPad + 1,
         more \in {<<>>,
                   <<FullBox(N_infe, 2, U16(1) \o U16(0) \o N_Exif \o <<0>>)>>}}

\* ftyp, a meta box whose iloc item of the Exif entry has no extent, or an
\* extent of less than 4 bytes, and an mdat box
ShortExtentInputs ==
    {Input("heif", "extent", TRUE, 3,
           FtypBox(0)
           \o MetaBox(<<IinfBox(0, <<FullBox(N_infe, 2,
                                             U16(1) \o U16(0) \o N_Exif
                                             \o <<0>>)>>),
                        FullBox(N_iloc, 0,
                                <<68, 0>> \o U16(1)
                                \o U16(1) \o U16(0) \o U16(k)
                                \o Concat([i \in 1..k |->
                                             U32(ExifItemAt) \o U32(n)]))>>)
           \o Box(N_mdat, U32(6) \o ExifPrefix))
       : k \in 0..1, n \in 0..3}

Inputs ==
    StreamInputs \cup IinfInputs \cup IlocInputs \cup LargeInputs
    \cup ToEndInputs \cup CutHeifInputs \cup ExifInputs \cup ChildInputs
    \cup WidthInputs \cup OpaqueInputs \cup ShortExtentInputs
    \cup EntryInputs \cup ChainInputs \cup HeaderInputs \cup TextInputs
    \cup ScanInputs \cup BadJpegInputs \cup App1Inputs

----------------------------------------------------------------------------
(* The state machine: one entry point runs on one input buffer             *)

NoTiff ==
    [data |-> <<>>, position |-> 0, endianness |-> "None", entries |-> <<>>,
     left |-> 0, phase |-> "none", tags |-> <<>>, extra |-> <<>>, idx |-> 0,
     last |-> <<>>, ret |-> [st |-> "none"]]

\* A cursor at the start of a buffer handed to read_tiff
StartTiff(d) == [NoTiff EXCEPT !.data = d]

NoScan == [marker |-> [name |-> "UNKNOWN", value |-> 0],
           section_data |-> <<>>, buf |-> <<0, 0>>, start |-> 0]

NoResult == [st |-> "none"]

Init ==
    \E i \in Inputs :
        /\ input = [family |-> i.family, wf |-> i.wf, boxes |-> i.boxes]
        /\ kind = i.kind
        /\ data = i.data
        /\ position = IF i.kind = "jpeg" THEN 2 ELSE 0
        /\ pc = CASE i.kind = "heif" -> "heif_loop"
                  [] i.kind = "jpeg" -> "jpeg_loop"
                  [] OTHER -> "tiff_header"
        /\ atoms = <<>>
        /\ sections = <<>>
        /\ scan = NoScan
        /\ tiff = IF i.kind = "tiff" THEN StartTiff(i.data) ELSE NoTiff
        /\ result = NoResult

\* Where read_tiff's caller goes on when read_tiff returns
AfterTiff ==
    CASE kind = "heif" -> "heif_xmp"
      [] kind = "jpeg" -> "jpeg_exif"
      [] OTHER -> "done"

\* read_tiff ends: a panic unwinds the whole entry point, a returned value
\* goes to the caller (the entry point itself when kind = "tiff")
TiffEnds(t, r) ==
    /\ tiff' = [t EXCEPT !.ret = r]
    /\ pc' = IF r.st = "panic" THEN "panic" ELSE AfterTiff
    /\ result' = IF r.st # "panic" /\ kind = "tiff" THEN r ELSE result
    /\ UNCHANGED <<input, kind, data, position, atoms, sections, scan>>

\* read_tiff goes on at pc p with its locals t
TiffGoes(t, p) ==
    /\ tiff' = t
    /\ pc' = p
    /\ UNCHANGED <<input, kind, data, position, atoms, sections, scan, result>>

\* byte_order with every other mark taken for "II"
byte_order_lenient(mark) == IF mark = <<77, 77>> THEN "Big" ELSE "Little"

\* The match of read_tiff on the first two bytes: "None" stands for the
\* arm that returns Err
byte_order(mark) ==
    CASE mark = <<77, 77>> -> "Big"
      [] mark = <<73, 73>> -> "Little"
      [] OTHER -> "None"

\* read_tiff: the byte order mark and the magic number
read_tiff_header ==
    /\ pc = "tiff_header"
    /\ IF ~CanRead(tiff.data, 0, 2) THEN TiffEnds(tiff, [st |-> "panic"])
       ELSE \E endianness \in {byte_order(Slice(tiff.data, 0, 2))} :
           IF endianness = "None"
           THEN TiffEnds([tiff EXCEPT !.position = 2], [st |-> "err"])
           ELSE IF ~CanRead(tiff.data, 2, 2)
           THEN TiffEnds([tiff EXCEPT !.position = 2,
                                      !.endianness = endianness],
                         [st |-> "panic"])
           ELSE IF unpack(Slice(tiff.data, 2, 2), endianness) # 42
           THEN TiffEnds([tiff EXCEPT !.position = 4,
                                      !.endianness = endianness],
                         [st |-> "err"])
           ELSE TiffGoes([tiff EXCEPT !.position = 4,
                                      !.endianness = endianness,
                                      !.phase = "chain"],
                         "tiff_chain")

\* read_ifd up to its first entry: the entry count at the cursor
read_ifd_count(t, offset, phase, back) ==
    IF ~CanRead(t.data, offset, 2) THEN TiffEnds(t, [st |-> "panic"])
    ELSE LET n == unpack(Slice(t.data, offset, 2), t.endianness)
         IN  TiffGoes([t EXCEPT !.position = offset + 2, !.left = n,
                                !.phase = phase],
                      IF n = 0 THEN back ELSE "tiff_ifd")

\* read_tiff: one turn of the loop over the chain of IFDs, up to the first
\* entry of the next IFD or, at offset 0, to the tags of the chain
read_tiff_chain ==
    /\ pc = "tiff_chain"
    /\ IF ~CanRead(tiff.data, tiff.position, 4)
       THEN TiffEnds(tiff, [st |-> "panic"])
       ELSE
       \E offset \in {unpack(Slice(tiff.data, tiff.position, 4), tiff.endianness)},
          t \in {[tiff EXCEPT !.position = tiff.position + 4]} :
           IF offset # 0
           THEN read_ifd_count(t, offset, "chain", "tiff_chain")
           ELSE \E r \in {ifd_entries_to_tiff_tags(tiff.entries)} :
                IF r.st # "ok" THEN TiffEnds(t, [st |-> r.st])
                ELSE TiffGoes([t EXCEPT !.tags = r.tags, !.idx = 1,
                                        !.phase = "sub"],
                              "tiff_pointers")

\* read_ifd: one entry of the IFD the cursor is in
read_ifd ==
    /\ pc = "tiff_ifd"
    /\ Len(tiff.entries) + Len(tiff.extra) < MaxEntries
    /\ \E r \in {read_ifd_entry(tiff.data, tiff.position, tiff.endianness)} :
           IF r.st # "ok"
           THEN TiffEnds([tiff EXCEPT !.position = r.pos], [st |-> r.st])
           ELSE TiffGoes(
                  [tiff EXCEPT
                     !.position = r.pos,
                     !.left = tiff.left - 1,
                     !.last = <<r>>,
                     !.entries = IF tiff.phase = "chain"
                                 THEN Append(tiff.entries, r.entry)
                                 ELSE tiff.entries,
                     !.extra = IF tiff.phase = "chain" THEN tiff.extra
                               ELSE Append(tiff.extra, r.entry)],
                  IF tiff.left > 1 THEN "tiff_ifd"
                  ELSE IF tiff.phase = "chain" THEN "tiff_chain"
                  ELSE "tiff_pointers")

\* tags.extend(..) with the new tags put before the old ones
tags_extend_front(tags, more) == more \o tags

\* tags.extend(ifd_entries_to_tiff_tags(extra_found_entries)?)
tags_extend(tags, more) == tags \o more

\* read_tiff: the loop over the tags of the chain, up to the first entry of
\* the next sub-directory or, after the last tag, to the returned Tiff
read_tiff_pointers ==
    /\ pc = "tiff_pointers"
    /\ \E ptrs \in {{i \in tiff.idx..Len(tiff.tags) :
                        tiff.tags[i].variant
                            \in {"ExifIfdPointer", "GpsIfdPointer"}}} :
           IF ptrs # {}
           THEN \E i \in {j \in ptrs : \A k \in ptrs : j <= k} :
                    read_ifd_count([tiff EXCEPT !.idx = i + 1],
                                   tiff.tags[i].value, "sub", "tiff_pointers")
           ELSE \E r \in {ifd_entries_to_tiff_tags(tiff.extra)} :
                IF r.st # "ok" THEN TiffEnds(tiff, [st |-> r.st])
                ELSE TiffEnds([tiff EXCEPT !.idx = Len(tiff.tags) + 1],
                              [st |-> "ok",
                               tags |-> tags_extend(tiff.tags, r.tags),
                               endianness |-> tiff.endianness])

\* read_exif_section: the TIFF buffer that follows the 6 bytes "Exif\0\0"
read_exif_section(d) ==
    IF Len(d) < 6 THEN [ok |-> FALSE, data |-> <<>>]
    ELSE [ok |-> TRUE, data |-> SubSeq(d, 7, Len(d))]

\* read_heif: one turn of while cursor.position() < file_size
read_heif_loop ==
    /\ pc = "heif_loop"
    /\ position < Len(data)
    /\ \E r \in {read_top_atom(data, position)} :
           /\ pc' = IF r.ok THEN "heif_loop" ELSE "panic"
           /\ position' = r.pos
           /\ atoms' = IF r.ok THEN Append(atoms, r.atom) ELSE atoms
    /\ UNCHANGED <<input, kind, data, sections, scan, tiff, result>>

\* read_heif after its loop: get_exif up to the TIFF decoder
read_heif_exif ==
    /\ pc = "heif_loop"
    /\ position >= Len(data)
    /\ \E g \in {get_exif(atoms, data)} :
           IF g.st = "none"
           THEN /\ pc' = "heif_xmp"
                /\ UNCHANGED <<position, tiff>>
           ELSE IF g.st = "panic"
           THEN /\ pc' = "panic"
                /\ UNCHANGED <<position, tiff>>
           ELSE \E s \in {read_exif_section(g.data)} :
                /\ pc' = IF s.ok THEN "tiff_header" ELSE "panic"
                /\ position' = g.start + Len(g.data)
                /\ tiff' = IF s.ok THEN StartTiff(s.data) ELSE tiff
    /\ UNCHANGED <<input, kind, data, atoms, sections, scan, result>>

\* read_heif: what get_exif makes of the TIFF decoder's result, then get_xmp
read_heif_xmp ==
    /\ pc = "heif_xmp"
    /\ \E x \in {get_xmp(atoms, data)} :
           /\ pc' = IF x.st = "panic" THEN "panic" ELSE "done"
           /\ result' = IF x.st = "panic" THEN result
                        ELSE [st |-> "ok",
                              exif |-> IF tiff.ret.st = "ok"
                                       THEN <<tiff.ret>> ELSE <<>>,
                              xmp |-> IF x.st = "some" THEN <<x.data>> ELSE <<>>]
    /\ UNCHANGED <<input, kind, data, position, atoms, sections, scan, tiff>>

\* get_jpeg_sections: one turn of the outer loop, up to the pushed section
\* or, for a start-of-scan marker, to the loop over the entropy-coded data
\* (scan.start keeps the offset at which the turn began)
get_jpeg_sections ==
    /\ pc = "jpeg_loop"
    /\ Len(data) >= 2
    /\ position < Len(data) - 2
    /\ \E r \in {read_section(data, position)} :
           IF ~r.ok
           THEN /\ pc' = "panic"
                /\ UNCHANGED <<position, sections, scan>>
           ELSE IF r.marker.name = "SOS"
           THEN /\ pc' = "jpeg_scan"
                /\ position' = r.pos
                /\ scan' = [marker |-> r.marker, section_data |-> r.section_data,
                            buf |-> <<0, 0>>, start |-> position]
                /\ UNCHANGED sections
           ELSE /\ pc' = "jpeg_loop"
                /\ position' = r.pos
                /\ sections' = Append(sections,
                                      [marker |-> r.marker,
                                       section_data |-> r.section_data])
                /\ scan' = NoScan
    /\ UNCHANGED <<input, kind, data, atoms, tiff, result>>

\* get_jpeg_sections: one turn of the loop over the entropy-coded data
get_jpeg_sections_scan ==
    /\ pc = "jpeg_scan"
    /\ LET buf == <<scan.buf[2],
                    IF position < Len(data) THEN data[position + 1]
                    ELSE scan.buf[2]>>
           sec == [marker |-> scan.marker, section_data |-> scan.section_data]
       IN  IF position >= Len(data)
           THEN /\ pc' = "jpeg_loop"
                /\ sections' = Append(sections, sec)
                /\ scan' = [scan EXCEPT !.buf = buf]
                /\ UNCHANGED position
           ELSE IF ends_scan(buf)
           THEN /\ pc' = "jpeg_loop"
                /\ sections' = Append(sections, sec)
                /\ scan' = [scan EXCEPT !.buf = buf]
                /\ position' = position + 1 - 2
           ELSE /\ pc' = "jpeg_scan"
                /\ scan' = [scan EXCEPT !.buf = buf,
                              !.section_data = Append(scan.section_data, buf[1])]
                /\ position' = position + 1
                /\ UNCHANGED sections
    /\ UNCHANGED <<input, kind, data, atoms, tiff, result>>

\* The comment read_jpeg returns: the text of the first COM section
jpeg_comment(secs) ==
    [i \in 1..Len(first_section(secs, "COM")) |->
       from_utf8_lossy(first_section(secs, "COM")[i])]

\* read_jpeg after get_jpeg_sections: the first APP1 section, up to the
\* TIFF decoder or to the returned Jpeg
read_jpeg ==
    /\ pc = "jpeg_loop"
    /\ Len(data) < 2 \/ position >= Len(data) - 2
    /\ LET app1 == first_section(sections, "APP1")
           d    == IF app1 = <<>> THEN <<>> ELSE app1[1]
           s    == read_exif_section(d)
       IN  IF Len(data) < 2 \/ (app1 # <<>> /\ Len(d) < 4)
           THEN /\ pc' = "panic"
                /\ UNCHANGED <<tiff, result>>
           ELSE IF app1 # <<>> /\ SubSeq(d, 1, 4) = N_Exif
           THEN /\ pc' = IF s.ok THEN "tiff_header" ELSE "panic"
                /\ tiff' = IF s.ok THEN StartTiff(s.data) ELSE tiff
                /\ UNCHANGED result
           ELSE /\ pc' = "done"
                /\ result' = [st |-> "ok", comment |-> jpeg_comment(sections),
                              exif |-> <<>>,
                              xmp |-> IF app1 # <<>>
                                         /\ SubSeq(d, 1, 4) = <<104, 116, 116, 112>>
                                      THEN <<from_utf8_lossy(d)>> ELSE <<>>]
                /\ UNCHANGED tiff
    /\ UNCHANGED <<input, kind, data, position, atoms, sections, scan>>

\* read_jpeg: what it makes of the TIFF decoder's result
read_jpeg_exif ==
    /\ pc = "jpeg_exif"
    /\ pc' = "done"
    /\ result' = IF tiff.ret.st = "err" THEN [st |-> "err"]
                 ELSE [st |-> "ok", comment |-> jpeg_comment(sections),
                       exif |-> <<tiff.ret>>, xmp |-> <<>>]
    /\ UNCHANGED <<input, kind, data, position, atoms, sections, scan, tiff>>

Next ==
    \/ read_heif_loop
    \/ read_heif_exif
    \/ read_heif_xmp
    \/ get_jpeg_sections
    \/ get_jpeg_sections_scan
    \/ read_jpeg
    \/ read_jpeg_exif
    \/ read_tiff_header
    \/ read_tiff_chain
    \/ read_ifd
    \/ read_tiff_pointers

Spec == Init /\ [][Next]_vars

----------------------------------------------------------------------------
(* Properties of the box tree decoder                                      *)

Range(s) == {s[i] : i \in 1..Len(s)}

\* The cursor after the box is the start of the box plus its declared size
Exact(a) == a.end - a.start = a.size

\* The sub-boxes of a box at every depth (meta > dinf > dref > entry)
SubBoxes(a) ==
    Range(a.children)
    \cup UNION {Range(c.children) : c \in Range(a.children)}
    \cup UNION {UNION {Range(e.children) : e \in Range(c.children)}
                  : c \in Range(a.children)}

\* The decoded meta boxes
Metas == {a \in Range(atoms) : a.variant = "Meta"}

\* C1: in a stream of well-formed top-level boxes with 32-bit sizes (ftyp,
\* a meta box of well-formed sub-boxes, free, mdat), read_top_atom leaves
\* the cursor at the start of each box plus its declared size, nothing
\* panics, and read_heif returns as many atoms as the stream has boxes.
C1_TopBoxesExact ==
    (kind = "heif" /\ input.family \in {"stream", "iinf", "exif"}) =>
        /\ pc # "panic"
        /\ \A a \in Range(atoms) : Exact(a)
        /\ pc = "done" => Len(atoms) = input.boxes

\* C2: a box whose 32-bit size field is 1 has a 16-byte header and leaves
\* the cursor at its start plus the 64-bit size that follows the name.
C2_LargeSizeExact ==
    input.family = "large" =>
        \A a \in Range(atoms) : a.size32 = 1 => a.hdr = 16 /\ Exact(a)

\* C3: a top-level box whose 32-bit size field is 0 is the last one:
\* decoding it leaves the cursor at the end of the buffer, read_heif reads
\* no header after it, and nothing panics whatever follows the header.
C3_ToEndOfBuffer ==
    input.family = "toend" =>
        /\ pc # "panic"
        /\ \A i \in 1..Len(atoms) :
              atoms[i].size32 = 0 =>
                  atoms[i].end = Len(data) /\ i = Len(atoms)

\* C4: every sub-box decoded under meta, padded or not, leaves the cursor
\* at its start plus its declared size, and so does the meta box itself.
C4_SubBoxesExact ==
    input.family \in {"stream", "padded", "iinf", "exif"} =>
        \A m \in Metas : Exact(m) /\ \A c \in SubBoxes(m) : Exact(c)

\* A field of an iloc box read under a width code from the cursor at up to
\* the cursor end with the value val: 0 bytes and the value 0 for the code
\* 0, 4 or 8 bytes and their big-endian value for the codes 4 and 8
IlocFieldOk(at, end, width, val) ==
    CASE width = 0 -> end = at /\ val = 0
      [] width \in {4, 8} ->
            end = at + width /\ val = from_be_bytes(Slice(data, at, width))
      [] OTHER -> FALSE

\* The extent x of an iloc box of a version, read under the width codes w
IlocExtentOk(version, w, x) ==
    /\ IF version \in {1, 2}
       THEN /\ Len(x.extent_index) = 1
            /\ IlocFieldOk(x.at, x.index_end, w.index_size, x.extent_index[1])
       ELSE x.extent_index = <<>> /\ x.index_end = x.at
    /\ IlocFieldOk(x.index_end, x.offset_end, w.offset_size, x.extent_offset)
    /\ IlocFieldOk(x.offset_end, x.end, w.length_size, x.extent_length)

\* The decoded iloc boxes
Ilocs ==
    UNION {{c.value : c \in {b \in Range(m.children) : b.variant = "MetaIloc"}}
             : m \in Metas}

\* C6: every base_offset, extent_index (versions 1 and 2), extent_offset
\* and extent_length of a decoded iloc box takes 0 bytes and is 0 under the
\* width code 0, and takes 4 (8) bytes and is their big-endian value under
\* the width code 4 (8).
C6_IlocFieldWidths ==
    \A v \in Ilocs : \A i \in 1..Len(v.items) :
        /\ IlocFieldOk(v.items[i].base_at, v.items[i].base_end,
                       v.widths.base_offset_size, v.items[i].base_offset)
        /\ \A j \in 1..Len(v.items[i].extents) :
              IlocExtentOk(v.version, v.widths, v.items[i].extents[j])

\* An iloc box is decoded whose item has a base_offset of 8 bytes and an
\* extent with an offset of 4 bytes and a length of 0 bytes
C6_Witness ==
    \E v \in Ilocs : \E i \in 1..Len(v.items) :
        /\ v.widths.base_offset_size = 8
        /\ v.widths.offset_size = 4
        /\ v.widths.length_size = 0
        /\ v.items[i].base_end = v.items[i].base_at + 8
        /\ v.items[i].extents # <<>>

----------------------------------------------------------------------------
(* Properties of the TIFF decoder                                          *)

\* C5: read_ifd_entry on an entry at e reads the values from the entry's
\* own field at e + 8 when they take at most 4 bytes and from the offset
\* stored in that field otherwise, and leaves the cursor at e + 12 in both
\* cases.
C5_EntryCursor ==
    [][(pc = "tiff_ifd" /\ pc' \in {"tiff_ifd", "tiff_chain", "tiff_pointers"})
       => /\ tiff'.last # <<>>
          /\ tiff'.last[1].e = tiff.position
          /\ tiff'.position = tiff.position + 12
          /\ Len(tiff'.last[1].entry.values) = tiff'.last[1].value_count
          /\ tiff'.last[1].at =
                IF Mul(tiff'.last[1].value_count,
                       get_tiff_value_type_size(tiff'.last[1].value_type)) <= 4
                THEN tiff.position + 8
                ELSE unpack(Slice(tiff.data, tiff.position + 8, 4),
                            tiff.endianness)]_vars

\* An entry whose values take more than 4 bytes and lie before the entry
\* has been read, and the cursor is 12 bytes after the start of the entry
C5_Witness ==
    /\ pc \in {"tiff_ifd", "tiff_chain", "tiff_pointers"}
    /\ tiff.last # <<>>
    /\ Mul(tiff.last[1].value_count,
           get_tiff_value_type_size(tiff.last[1].value_type)) > 4
    /\ tiff.last[1].at < tiff.last[1].e
    /\ tiff.position = tiff.last[1].e + 12

\* The buffer handed to read_tiff starts with two bytes that are neither
\* "II" nor "MM"
BadByteOrder ==
    /\ Len(tiff.data) >= 2
    /\ SubSeq(tiff.data, 1, 2) \notin {<<73, 73>>, <<77, 77>>}

\* C8: on a buffer whose first two bytes are neither "II" nor "MM",
\* read_tiff returns an error with the cursor after those two bytes: it
\* reads no magic number and no directory, and does not panic.
C8_BadByteOrderIsErr ==
    BadByteOrder =>
        \/ pc = "tiff_header" /\ tiff.ret.st = "none" /\ tiff.position = 0
        \/ /\ tiff.ret.st = "err"
           /\ tiff.position = 2
           /\ tiff.endianness = "None"
           /\ tiff.entries = <<>>
           /\ pc \notin {"tiff_header", "tiff_chain", "tiff_ifd", "tiff_pointers"}
           /\ kind = "tiff" => pc = "done" /\ result.st = "err"

\* read_tiff has returned an error on a buffer of more than two bytes whose
\* first two bytes are no byte order mark
C8_Witness ==
    /\ BadByteOrder
    /\ Len(tiff.data) > 2
    /\ kind = "tiff"
    /\ pc = "done"
    /\ result.st = "err"
    /\ tiff.position = 2

\* C9: no entry point panics on a buffer that ends before a field it has
\* to read.
C9_TruncationIsNoPanic ==
    input.family = "cut" => pc # "panic"

----------------------------------------------------------------------------
(* Properties of the JPEG scanner                                          *)

\* C7 as stated: in the entropy-coded data a pair 0xFF X with X = 0x00 or a
\* restart marker goes on with the data; the first pair 0xFF X with any
\* other X ends the data with the cursor on that 0xFF, and the next turn
\* of the outer loop reads that pair as its marker.
C7_AnyOtherMarkerEndsScan ==
    [][/\ (pc = "jpeg_scan" /\ position < Len(data) /\ scan.buf[2] = 255)
          => IF data[position + 1] \in {0} \cup 208..215
             THEN pc' = "jpeg_scan" /\ position' = position + 1
             ELSE /\ pc' = "jpeg_loop"
                  /\ position' = position - 1
                  /\ data[position' + 1] = 255
                  /\ scan'.buf = <<255, data[position + 1]>>
       /\ (/\ pc = "jpeg_loop"
           /\ scan.buf[1] = 255
           /\ scan.buf[2] \notin {0} \cup 208..215
           /\ pc' = "jpeg_scan" \/ Len(sections') > Len(sections))
          => scan.buf[2] = IF pc' = "jpeg_scan" THEN scan'.marker.value
                           ELSE sections'[Len(sections')].marker.value]_vars

\* C7 as the scanner has it: a pair 0xFF 0xFF goes on with the data too
\* (0xFF is a fill byte before a marker); the first pair 0xFF X with X
\* none of 0x00, 0xFF, 0xD0..0xD7 ends the data with the cursor on that
\* 0xFF, and the next turn of the outer loop, if there is one, reads that
\* pair as its marker.
C7_MarkerEndsScan ==
    [][/\ (pc = "jpeg_scan" /\ position < Len(data) /\ scan.buf[2] = 255)
          => IF data[position + 1] \in {0, 255} \cup 208..215
             THEN pc' = "jpeg_scan" /\ position' = position + 1
             ELSE /\ pc' = "jpeg_loop"
                  /\ position' = position - 1
                  /\ data[position' + 1] = 255
                  /\ scan'.buf = <<255, data[position + 1]>>
       /\ (/\ pc = "jpeg_loop"
           /\ scan.buf[1] = 255
           /\ scan.buf[2] \notin {0, 255} \cup 208..215
           /\ pc' = "jpeg_scan" \/ Len(sections') > Len(sections))
          => scan.buf[2] = IF pc' = "jpeg_scan" THEN scan'.marker.value
                           ELSE sections'[Len(sections')].marker.value]_vars

\* The data of a scan held a restart marker and was ended by the pair
\* 0xFF 0xFE, which the outer loop has read as a COM segment
C7_Witness ==
    /\ pc = "jpeg_loop"
    /\ Len(sections) >= 2
    /\ sections[Len(sections) - 1].marker.name = "SOS"
    /\ \E i \in 1..(Len(sections[Len(sections) - 1].section_data) - 1) :
          /\ sections[Len(sections) - 1].section_data[i] = 255
          /\ sections[Len(sections) - 1].section_data[i + 1] = 208
    /\ sections[Len(sections)].marker.value = 254

\* C10: a marker whose first byte is not 0xFF makes read_jpeg return an
\* error; nothing panics.
C10_BadMarkerIsErr ==
    input.family = "marker" =>
        /\ pc # "panic"
        /\ pc = "done" => result.st = "err"

----------------------------------------------------------------------------
(* Properties of the container decoders                                    *)

\* C11: when the TIFF decoder returns an error on an Exif payload that is
\* present (the HEIF item of type Exif, the first APP1 segment of a JPEG),
\* read_heif or read_jpeg reports a failure; it returns no successful
\* result whose exif is absent.
C11_ExifFailureSurfaces ==
    (kind \in {"heif", "jpeg"} /\ pc = "done" /\ tiff.ret.st = "err") =>
        result.st = "err"

\* The least element of a non-empty set of numbers
Least(S) == CHOOSE i \in S : \A j \in S : i <= j

\* The positions in a list of boxes of the boxes of a variant
Of(as, variant) == {i \in 1..Len(as) : as[i].variant = variant}

\* The positions in a list of infe entries of the version 2 or 3 entries of
\* an item type
Typed(es, item_type) ==
    {i \in 1..Len(es) : /\ es[i].value.value.shape = "V2Or3"
                        /\ es[i].value.value.item_type = item_type}

\* The decoded atoms locate no item of an item type: there is no meta box,
\* or the meta box has no iinf or no iloc sub-box, or no version 2 or 3
\* infe entry has that type, or no iloc item has the ID of that entry
ItemAbsent(item_type) ==
    \/ Of(atoms, "Meta") = {}
    \/ Of(atoms[Least(Of(atoms, "Meta"))].children, "MetaIinf") = {}
    \/ Of(atoms[Least(Of(atoms, "Meta"))].children, "MetaIloc") = {}
    \/ \E cs \in {atoms[Least(Of(atoms, "Meta"))].children} :
       \E es \in {cs[Least(Of(cs, "MetaIinf"))].children},
          its \in {cs[Least(Of(cs, "MetaIloc"))].value.items} :
           \/ Typed(es, item_type) = {}
           \/ \A j \in 1..Len(its) :
                 its[j].item_id
                     # es[Least(Typed(es, item_type))].value.value.item_id

\* C12: when the atoms locate no item of type Exif, get_exif returns None
\* without calling the TIFF decoder; when they locate no item of type mime,
\* get_xmp returns None and read_heif returns with xmp absent, and with
\* exif absent when no TIFF decoder ran; neither step panics.
C12_AbsenceIsNone ==
    [][/\ (pc = "heif_loop" /\ position >= Len(data) /\ ItemAbsent(N_Exif))
          => (pc' = "heif_xmp" /\ tiff' = tiff /\ result' = result)
       /\ (pc = "heif_xmp" /\ ItemAbsent(N_mime))
          => /\ pc' = "done"
             /\ result'.st = "ok"
             /\ result'.xmp = <<>>
             /\ tiff.ret.st = "none" => result'.exif = <<>>]_vars

\* read_heif has returned with exif and xmp absent on a buffer whose iinf
\* names an Exif item that no iloc item locates
C12_Witness ==
    /\ pc = "done"
    /\ input.family = "exif"
    /\ Of(atoms, "Meta") # {}
    /\ \E cs \in {atoms[Least(Of(atoms, "Meta"))].children} :
          /\ Of(cs, "MetaIinf") # {}
          /\ Of(cs, "MetaIloc") # {}
          /\ Typed(cs[Least(Of(cs, "MetaIinf"))].children, N_Exif) # {}
    /\ ItemAbsent(N_Exif)
    /\ result.st = "ok"
    /\ result.exif = <<>>
    /\ result.xmp = <<>>

\* C13: a sub-box of dref that is no alis, rsrc or url box, and a sub-box of
\* iinf that is no infe box, make read_heif return an error value; nothing
\* panics.
C13_UnexpectedChildIsErr ==
    input.family = "child" =>
        /\ pc # "panic"
        /\ pc = "done" => result.st = "err"

\* C14: an iloc box one of whose width codes is none of 0, 4, 8 makes
\* read_heif return an error value, whatever its item count; nothing
\* panics.
C14_BadWidthIsErr ==
    input.family = "width" =>
        /\ pc # "panic"
        /\ pc = "done" => result.st = "err"

----------------------------------------------------------------------------
(* Properties of the TIFF tag list                                         *)

\* The number held by the n bytes at offset p of the TIFF buffer, in the
\* byte order of its header
Field(p, n) == unpack(Slice(data, p, n), result.endianness)

\* The tag ids of the entries of the directory at offset off, in file order
DirIds(off) == [i \in 1..Field(off, 2) |-> Field(off + 2 + 12 * (i - 1), 2)]

\* The tag ids of the directories of the chain that starts at offset off,
\* in chain order, for at most fuel directories after the first one
RECURSIVE ChainIds(_, _)
ChainIds(off, fuel) ==
    IF off = 0 THEN <<>>
    ELSE DirIds(off)
         \o (IF fuel = 0 THEN <<>>
             ELSE ChainIds(Field(off + 2 + 12 * Field(off, 2), 4), fuel - 1))

\* The tag ids of the directories that the pointer tags among the first n
\* tags of a list name, in list order
RECURSIVE PointedIds(_, _)
PointedIds(tags, n) ==
    IF n = 0 THEN <<>>
    ELSE PointedIds(tags, n - 1)
         \o (IF tags[n].variant \in {"ExifIfdPointer", "GpsIfdPointer"}
             THEN DirIds(tags[n].value) ELSE <<>>)

BigEndianInt(value_type, b) ==
    IF value_type \in {8, 9, 10} THEN signed_be(b) ELSE from_be_bytes(b)

\* The numbers of the value of a multi-byte integer type held by a field
\* stored least significant byte first: a RATIONAL or SRATIONAL field is
\* two integers of 4 bytes
LittleEndianValue(value_type, field) ==
    IF value_type \in {5, 10}
    THEN <<BigEndianInt(value_type, Reverse(SubSeq(field, 1, 4))),
           BigEndianInt(value_type, Reverse(SubSeq(field, 5, 8)))>>
    ELSE <<BigEndianInt(value_type, Reverse(field))>>

\* C16: under a header that declares the byte order Little, each value of
\* a SHORT, LONG, RATIONAL, SSHORT, SLONG or SRATIONAL entry is the number
\* its byte-reversed field holds most significant byte first.
C16_DeclaredByteOrder ==
    \A n \in 1..Len(tiff.last) :
        (tiff.endianness = "Little"
         /\ tiff.last[n].value_type \in {3, 4, 5, 8, 9, 10}) =>
            \A k \in 1..Len(tiff.last[n].entry.values) :
                \E size \in {get_tiff_value_type_size(tiff.last[n].value_type)} :
                    tiff.last[n].entry.values[k].v
                        = LittleEndianValue(
                              tiff.last[n].value_type,
                              Slice(tiff.data,
                                    tiff.last[n].at + (k - 1) * size, size))

\* The tag id has no arm of its own in TiffTag::try_from
NoRow(tag) == tag \notin {t[1] : t \in TiffTagTable}

\* C17: the tag made of an entry whose tag id has no row in the dispatch
\* table is Unknown and holds the entry itself, the same tag id and the
\* same values in the same order, whatever their type and count; and the
\* conversion of a list of entries fails only if one of them has a row.
C17_UnknownTagKeepsEntry ==
    [][/\ \A i \in 1..Len(tiff'.tags) :
             NoRow(tiff'.entries[i].tag) =>
                 /\ tiff'.tags[i].variant = "Unknown"
                 /\ tiff'.tags[i].id = tiff'.entries[i].tag
                 /\ tiff'.tags[i].value = tiff'.entries[i]
       /\ (pc = "tiff_chain" /\ tiff'.ret.st = "err")
          => \E i \in 1..Len(tiff.entries) : ~NoRow(tiff.entries[i].tag)]_vars

\* The entries of the main chain have become tags, the first of them an
\* Unknown tag that holds two RATIONAL values
C17_Witness ==
    /\ pc = "tiff_pointers"
    /\ tiff.tags # <<>>
    /\ tiff.tags[1].variant = "Unknown"
    /\ NoRow(tiff.entries[1].tag)
    /\ Len(tiff.tags[1].value.values) = 2
    /\ tiff.tags[1].value.values[2].t = "RATIONAL"

\* The sections of a marker name, by index
Marked(name) == {i \in 1..Len(sections) : sections[i].marker.name = name}

\* C18: a JPEG with a COM segment and no APP1 segment decodes
\* successfully: exif and xmp are absent, and the comment is the text of
\* the payload of the first COM segment
C18_CommentOnly ==
    (/\ kind = "jpeg" /\ pc = "done"
     /\ Marked("COM") # {} /\ Marked("APP1") = {})
    => /\ result.st = "ok"
       /\ result.exif = <<>>
       /\ result.xmp = <<>>
       /\ result.comment
            = <<from_utf8_lossy(sections[Least(Marked("COM"))].section_data)>>

\* Two COM segments and no APP1: the comment is the first one, "hi"
C18_Witness ==
    /\ kind = "jpeg" /\ pc = "done"
    /\ Marked("APP1") = {}
    /\ Cardinality(Marked("COM")) = 2
    /\ sections[Least(Marked("COM"))].section_data = <<104, 105>>
    /\ sections[CHOOSE i \in Marked("COM") : i # Least(Marked("COM"))]
         .section_data = <<195, 169, 128>>
    /\ result.st = "ok"
    /\ result.comment = <<(<<104, 105>>)>>

\* The start-of-scan segment of an input of the family "scan": it is the
\* first segment, read at offset 2
ScanHeader == read_section(data, 2)

\* C19: the payload stored for a start-of-scan segment is the scan header
\* followed by exactly the bytes consumed after it, in order, up to the
\* 0xFF of the marker that ends the data, or up to the end of the buffer:
\* no byte is inserted and no consumed byte is dropped.
C19_ScanPayloadExact ==
    [][(input.family = "scan" /\ pc = "jpeg_scan" /\ pc' = "jpeg_loop")
       => sections'[Len(sections')].section_data
            = ScanHeader.section_data
              \o Slice(data, ScanHeader.pos, position' - ScanHeader.pos)]_vars

\* The version 2 or 3 infe entries of item type mime of the decoded meta
\* boxes
MimeInfes ==
    {e \in UNION {UNION {{cs[j].children[k] : k \in 1..Len(cs[j].children)}
                           : j \in Of(cs, "MetaIinf")}
                    : cs \in {atoms[i].children : i \in Of(atoms, "Meta")}} :
        /\ e.value.value.shape = "V2Or3"
        /\ e.value.value.item_type = N_mime}

\* The offset after the item_name of a version 2 or 3 infe entry: the box
\* header, version and flags, item_ID, item_protection_index and item_type
\* come before the name
AfterItemName(e) ==
    read_c_string(data, e.start + e.hdr + 4
                        + (IF e.value.version = 2 THEN 2 ELSE 4) + 2 + 4).pos

\* C20: in a version 2 or 3 infe of item type mime a content encoding is
\* read after the content type if and only if bytes remain before the end
\* of the infe box; with none left content_encoding is absent, and no byte
\* beyond the end of the box is consumed either way.
C20_EncodingIffBytesRemain ==
    \A e \in MimeInfes :
    \E ct \in {read_c_string(data, AfterItemName(e))} :
        /\ e.value.value.content_type = <<ct.val>>
        /\ (e.value.value.content_encoding # <<>>)
              <=> (ct.pos < e.start + e.size)
        /\ (ct.pos < e.start + e.size)
              => e.value.value.content_encoding
                    = <<read_c_string(data, ct.pos).val>>
        /\ e.end <= e.start + e.size

----------------------------------------------------------------------------
(* Properties of the item tables                                           *)

\* The infe entries of the decoded meta boxes
InfeEntries ==
    UNION {UNION {{cs[j].children[k] : k \in 1..Len(cs[j].children)}
                    : j \in Of(cs, "MetaIinf")}
             : cs \in {atoms[i].children : i \in Of(atoms, "Meta")}}

\* C21: an infe of a version other than 0, 1, 2 and 3 decodes, without
\* error, as an opaque string of exactly the payload bytes left in its box
\* after the version and flags, and leaves the cursor at the end of the
\* box.
C21_OpaqueInfeExact ==
    /\ input.family = "opaque" => pc # "panic"
    /\ \A e \in InfeEntries :
          e.value.version \notin {0, 1, 2, 3}
          => /\ e.value.value.shape = "Unknown"
             /\ e.value.value.string
                   = from_utf8_lossy(Slice(data, e.start + e.hdr + 4,
                                           e.size - e.hdr - 4))
             /\ e.end = e.start + e.size

\* C22: an infe of version 0 or 1 decodes into the shape of these
\* versions: a 16-bit item ID, a 16-bit protection index, an item name and
\* a content type, each ended by a NUL, and a content encoding only if
\* bytes remain before the end of the box.
C22_InfeV0Or1Shape ==
    \A e \in InfeEntries :
       e.value.version \in {0, 1}
       => /\ e.value.value.shape = "V0Or1"
          /\ e.value.value.item_id
                = from_be_bytes(Slice(data, e.start + e.hdr + 4, 2))
          /\ e.value.value.item_protection_index
                = from_be_bytes(Slice(data, e.start + e.hdr + 6, 2))
          /\ \E nm \in {read_c_string(data, e.start + e.hdr + 8)} :
             \E ct \in {read_c_string(data, nm.pos)} :
                /\ e.value.value.item_name = nm.val
                /\ e.value.value.content_type = ct.val
                /\ e.value.value.content_encoding
                      = IF ct.pos < e.start + e.size
                        THEN <<read_c_string(data, ct.pos).val>> ELSE <<>>

\* C23: the first packed byte of an iloc box holds offset_size in its
\* high-order nibble and length_size in its low-order nibble, the second
\* holds base_offset_size and index_size the same way; each byte is 16
\* times its first code plus its second.
C23_IlocNibbleOrder ==
    \A v \in Ilocs :
        /\ v.packed[1] = 16 * v.widths.offset_size + v.widths.length_size
        /\ v.packed[2] = 16 * v.widths.base_offset_size + v.widths.index_size

\* C24: in versions 1 and 2 of iloc the 16 bits read before
\* data_reference_index split into reserved, the upper 12 bits, and
\* construction_method, the low-order 4 bits: the field is 16 times
\* reserved plus construction_method. In version 0 both are absent and no
\* byte is read for them.
C24_ReservedAndMethodDisjoint ==
    \A v \in Ilocs : \A i \in 1..Len(v.items) :
        IF v.version \in {1, 2}
        THEN /\ v.items[i].field_end = v.items[i].field_at + 2
             /\ v.items[i].field
                   = from_be_bytes(Slice(data, v.items[i].field_at, 2))
             /\ Len(v.items[i].reserved) = 1
             /\ Len(v.items[i].construction_method) = 1
             /\ v.items[i].construction_method[1] < 16
             /\ v.items[i].field = 16 * v.items[i].reserved[1]
                                   + v.items[i].construction_method[1]
        ELSE /\ v.items[i].field_end = v.items[i].field_at
             /\ v.items[i].reserved = <<>>
             /\ v.items[i].construction_method = <<>>

----------------------------------------------------------------------------
(* Properties of the metadata hand-over                                    *)

\* The iloc items with the ID of the first version 2 or 3 infe entry of an
\* item type, in the first meta box; none when the atoms locate no item
Located(item_type) ==
    IF ItemAbsent(item_type) THEN <<>>
    ELSE LET cs  == atoms[Least(Of(atoms, "Meta"))].children
             es  == cs[Least(Of(cs, "MetaIinf"))].children
             its == cs[Least(Of(cs, "MetaIloc"))].value.items
         IN  SelectSeq(its, LAMBDA it :
                 it.item_id
                    = es[Least(Typed(es, item_type))].value.value.item_id)

\* C25: get_exif takes the iloc item with the ID of the first version 2 or
\* 3 infe entry of type Exif and, for its first extent (offset, length),
\* reads exactly the bytes from offset + 4 to offset + length of the buffer
\* for the TIFF decoder; an extent of less than 4 bytes and an item with no
\* extent make no underflow and no panic.
C25_ExifExtentExact ==
    [][(pc = "heif_loop" /\ position >= Len(data) /\ Located(N_Exif) # <<>>)
       => \E it \in {Located(N_Exif)[1]} :
             IF it.extents = <<>> THEN pc' # "panic"
             ELSE IF it.extents[1].extent_length < 4 THEN pc' # "panic"
             ELSE IF ~CanRead(data, it.extents[1].extent_offset,
                              it.extents[1].extent_length) THEN TRUE
             ELSE /\ position' = it.extents[1].extent_offset
                                 + it.extents[1].extent_length
                  /\ pc' = "tiff_header"
                     => tiff'.data
                          = read_exif_section(
                               Slice(data, it.extents[1].extent_offset + 4,
                                     it.extents[1].extent_length - 4)).data
      ]_vars

\* The payload of the first APP1 section begins with four bytes
FirstApp1Begins(prefix) ==
    /\ Marked("APP1") # {}
    /\ Len(sections[Least(Marked("APP1"))].section_data) >= 4
    /\ SubSeq(sections[Least(Marked("APP1"))].section_data, 1, 4) = prefix

\* C26: read_jpeg takes exif and xmp from the first APP1 section only:
\* exif is present only if that section begins with "Exif", xmp exactly
\* if it begins with "http"; a later APP1 section adds nothing, and no
\* result has both.
C26_FirstApp1Only ==
    (kind = "jpeg" /\ pc = "done" /\ result.st = "ok")
    => /\ result.exif # <<>> => FirstApp1Begins(N_Exif)
       /\ result.xmp # <<>> <=> FirstApp1Begins(<<104, 116, 116, 112>>)
       /\ result.exif = <<>> \/ result.xmp = <<>>

\* An XMP section followed by an Exif section: xmp is present, exif is not
C26_Witness ==
    /\ kind = "jpeg" /\ pc = "done" /\ result.st = "ok"
    /\ Cardinality(Marked("APP1")) = 2
    /\ FirstApp1Begins(<<104, 116, 116, 112>>)
    /\ \E i \in Marked("APP1") :
          SubSeq(sections[i].section_data, 1, 4) = N_Exif
    /\ result.xmp = <<(<<104, 116, 116, 112, 58>>)>>
    /\ result.exif = <<>>

\* An Exif section followed by an XMP section: exif is present, xmp is not
C26_WitnessExif ==
    /\ kind = "jpeg" /\ pc = "done" /\ result.st = "ok"
    /\ FirstApp1Begins(N_Exif)
    /\ \E i \in Marked("APP1") :
          SubSeq(sections[i].section_data, 1, 4) = <<104, 116, 116, 112>>
    /\ result.exif # <<>>
    /\ result.xmp = <<>>

----------------------------------------------------------------------------
(* Properties of the tag values                                            *)

\* A byte string without the NUL bytes at its end
RECURSIVE StripTrailingNuls(_)
StripTrailingNuls(b) ==
    IF b = <<>> THEN b
    ELSE IF b[Len(b)] = 0 THEN StripTrailingNuls(SubSeq(b, 1, Len(b) - 1))
    ELSE b

\* The bytes of the values of an entry, in the order read
EntryBytes(entry) == [k \in 1..Len(entry.values) |-> entry.values[k].v[1]]

\* C27: the string of an ASCII-typed entry is the text of its bytes without
\* the NUL bytes at the end; every byte before them, an interior NUL
\* included, is kept in order.
C27_OnlyTrailingNulsStripped ==
    \A i \in 1..Min(Len(tiff.tags), Len(tiff.entries)) :
       (/\ TiffTagRow(tiff.entries[i].tag)[3] = "string"
        /\ tiff.entries[i].values # <<>>
        /\ \A k \in 1..Len(tiff.entries[i].values) :
              tiff.entries[i].values[k].t = "ASCII")
       => tiff.tags[i].value
             = from_utf8_lossy(StripTrailingNuls(EntryBytes(tiff.entries[i])))

\* C28: the text of UserComment (tag 37510) is the lossy UTF-8 text of all
\* the bytes after the encoding prefix of 8 bytes, whatever the prefix is;
\* none is dropped.
C28_UserCommentWholeText ==
    \A i \in 1..Min(Len(tiff.tags), Len(tiff.entries)) :
       (/\ tiff.entries[i].tag = 37510
        /\ Len(tiff.entries[i].values) >= 8
        /\ \A k \in 1..Len(tiff.entries[i].values) :
              tiff.entries[i].values[k].t \in {"BYTE", "ASCII", "UNDEFINED"})
       => /\ tiff.tags[i].variant = "UserComment"
          /\ tiff.tags[i].value
                = from_utf8_lossy(SubSeq(EntryBytes(tiff.entries[i]), 9,
                                         Len(tiff.entries[i].values)))

----------------------------------------------------------------------------
(* Properties of the walks                                                 *)

\* C29: read_tiff ends on every buffer, also when a next-directory offset
\* names a directory already visited, and the list it builds stays within
\* the size of the buffer: the entries of the chain, 12 bytes each in
\* directories visited once, take no more bytes than the buffer has.
C29_ChainWalkBounded ==
    pc \in {"tiff_chain", "tiff_ifd", "tiff_pointers"}
    => 12 * Len(tiff.entries) <= Len(tiff.data)

\* C30: every turn of the outer loop of get_jpeg_sections moves the cursor
\* forward by at least 4 bytes net, a turn that steps back 2 bytes at the
\* end of a start-of-scan segment included, so the loop ends on every
\* buffer; it starts at offset 2, runs only while more than 2 bytes
\* remain, and keeps the segments in the order met.
C30_SectionLoopProgress ==
    [][kind = "jpeg" =>
       /\ (pc = "jpeg_loop" /\ sections = <<>> /\ scan = NoScan)
          => position = 2
       /\ (pc = "jpeg_loop" /\ pc' = "jpeg_loop")
          => /\ Len(data) - position > 2
             /\ position' >= position + 4
             /\ sections' = Append(sections, sections'[Len(sections')])
             /\ sections'[Len(sections')].marker.value = data[position + 2]
       /\ (pc = "jpeg_loop" /\ pc' = "jpeg_scan")
          => /\ Len(data) - position > 2
             /\ position' >= position + 4
             /\ scan'.start = position
             /\ sections' = sections
       /\ (pc = "jpeg_scan" /\ pc' = "jpeg_scan")
          => /\ position' = position + 1
             /\ scan'.start = scan.start
             /\ sections' = sections
       /\ (pc = "jpeg_scan" /\ pc' = "jpeg_loop")
          => /\ position' >= scan.start + 4
             /\ position' <= Len(data)
             /\ sections' = Append(sections, sections'[Len(sections')])
             /\ sections'[Len(sections')].marker.value = data[scan.start + 2]
      ]_vars

\* A turn for a start-of-scan segment with an empty header and no data
\* has ended on the pair 0xFF 0xD9 and stepped back 2 bytes: 4 bytes net
C30_Witness ==
    /\ kind = "jpeg" /\ pc = "jpeg_loop"
    /\ sections # <<>>
    /\ sections[Len(sections)].marker.name = "SOS"
    /\ scan.buf = <<255, 217>>
    /\ position = scan.start + 4
    /\ data[position + 1] = 255

====
